---- MODULE Spec2Model ----
(***************************************************************************)
(* Model of the strategy analytics core of Risk-Management-Software:       *)
(*   - the three formula evaluators (MonteCarloEngine, StressTestEngine,   *)
(*     OverfittingDetector), which hand the formula text to Python's eval; *)
(*   - StrategyModel.set_returns and its cached metric mapping;            *)
(*   - PortfolioModel: allocations, optimisation methods, portfolio        *)
(*     returns and metrics.                                                *)
(*                                                                         *)
(* Numbers.  A Python/numpy float is modelled as an extended rational:     *)
(* a finite value is an exact fraction <<n, d>> in lowest terms, and the   *)
(* three IEEE specials are kept apart ("inf", "ninf", "nan").  A value     *)
(* also carries the type that decides how division by zero behaves:        *)
(* "py" (a Python int/float: raises ZeroDivisionError) or "np" (a numpy    *)
(* float64: yields inf/nan and only warns).  Irrational results of sqrt,   *)
(* log and exp are rounded to 1/Scale.                                     *)
(***************************************************************************)
EXTENDS Integers, Sequences, FiniteSets, TLC

VARIABLES
    call,         \* evaluator spec: the pending evaluator call (inputs)
    ret,          \* evaluator spec: what the call returned
    returns,      \* strategy spec: StrategyModel.returns
    metrics,      \* strategy spec: StrategyModel.metrics (cached mapping)
    metricsOf,    \* strategy spec: the series the cached mapping was computed from
    strategies,   \* portfolio spec: PortfolioModel.strategies (name -> strategy)
    allocations,  \* portfolio spec: PortfolioModel.allocations (name -> weight)
    portfolio_metrics, \* portfolio spec: PortfolioModel.portfolio_metrics
    manual,       \* portfolio spec: the mapping last passed to set_allocation, while still in force
    last,         \* portfolio spec: the last operation, its inputs and outcome
    ops           \* portfolio spec: number of operations performed

evalVars == <<call, ret>>
stratVars == <<returns, metrics, metricsOf>>
portVars == <<strategies, allocations, portfolio_metrics, manual, last, ops>>
vars == <<call, ret, returns, metrics, metricsOf, strategies, allocations,
          portfolio_metrics, manual, last, ops>>

-----------------------------------------------------------------------------
(* Exact fractions *)

Abs(x) == IF x < 0 THEN -x ELSE x

RECURSIVE Gcd(_, _)
Gcd(a, b) == IF b = 0 THEN a ELSE Gcd(b, a % b)

\* the fraction n/d (d # 0) in lowest terms with a positive denominator
Q(n, d) ==
    LET g == Gcd(Abs(n), Abs(d))
        s == IF d < 0 THEN -1 ELSE 1
    IN  <<(s * n) \div g, (s * d) \div g>>

QInt(n) == <<n, 1>>
\* common factors are divided out before multiplying, which keeps the
\* intermediate products small
QAdd(a, b) ==
    LET g == Gcd(a[2], b[2])
    IN  Q(a[1] * (b[2] \div g) + b[1] * (a[2] \div g), (a[2] \div g) * b[2])
QSub(a, b) == QAdd(a, <<-b[1], b[2]>>)
QMul(a, b) ==
    LET g1 == Gcd(Abs(a[1]), b[2])
        g2 == Gcd(Abs(b[1]), a[2])
    IN  Q((a[1] \div g1) * (b[1] \div g2), (a[2] \div g2) * (b[2] \div g1))
QDiv(a, b) == QMul(a, IF b[1] < 0 THEN <<-b[2], -b[1]>> ELSE <<b[2], b[1]>>)
QLt(a, b) ==
    LET g == Gcd(a[2], b[2])
    IN  a[1] * (b[2] \div g) < b[1] * (a[2] \div g)
QLe(a, b) == ~QLt(b, a)
QSign(a) == IF a[1] > 0 THEN 1 ELSE IF a[1] < 0 THEN -1 ELSE 0
QNeg(a) == <<-a[1], a[2]>>
QAbs(a) == <<Abs(a[1]), a[2]>>

RECURSIVE QSum(_)
QSum(s) == IF s = <<>> THEN QInt(0) ELSE QAdd(Head(s), QSum(Tail(s)))

\* resolution of rounded irrational results
Scale == 100

RECURSIVE ISqrtIn(_, _, _)
\* bisection: the r in lo..hi-1 with r*r <= n < (r+1)*(r+1)
ISqrtIn(n, lo, hi) ==
    IF hi - lo <= 1 THEN lo
    ELSE LET mid == (lo + hi) \div 2
         IN  IF mid <= n \div mid THEN ISqrtIn(n, mid, hi) ELSE ISqrtIn(n, lo, mid)
\* floor of the square root of a natural number
ISqrt(n) == ISqrtIn(n, 0, n + 1)

\* square root of a fraction >= 0: exact when it is rational, else rounded down
\* to 1/Scale
QSqrt(a) ==
    LET rn == ISqrt(a[1])
        rd == ISqrt(a[2])
    IN  IF rn * rn = a[1] /\ rd * rd = a[2]
        THEN Q(rn, rd)
        ELSE Q(ISqrt(a[1] * a[2] * Scale * Scale), a[2] * Scale)

-----------------------------------------------------------------------------
(* Python / numpy floats *)

Fin(t, q) == [t |-> t, k |-> "fin", q |-> q]
Special(t, k) == [t |-> t, k |-> k, q |-> <<0, 1>>]
\* a function object (the value of a bare whitelisted name such as  sqrt )
FuncObj == [t |-> "py", k |-> "func", q |-> <<0, 1>>]

IsZero(a) == a.k = "fin" /\ a.q[1] = 0
IsNumber(a) == a.k # "func"
IsFinite(a) == a.k = "fin"
\* sign of a non-NaN number
XSign(a) == IF a.k = "fin" THEN QSign(a.q) ELSE IF a.k = "inf" THEN 1 ELSE -1
InfOfSign(s) == IF s > 0 THEN "inf" ELSE "ninf"
Rank(a) == IF a.k = "inf" THEN 1 ELSE IF a.k = "ninf" THEN -1 ELSE 0
JoinType(a, b) == IF a.t = "np" \/ b.t = "np" THEN "np" ELSE "py"

\* IEEE-754 comparison  a < b : false as soon as one side is NaN
XLt(a, b) ==
    /\ a.k # "nan"
    /\ b.k # "nan"
    /\ IF Rank(a) # Rank(b) THEN Rank(a) < Rank(b)
       ELSE a.k = "fin" /\ QLt(a.q, b.q)

IeeeNeg(a) ==
    IF a.k = "fin" THEN Fin(a.t, QNeg(a.q))
    ELSE IF a.k = "inf" THEN Special(a.t, "ninf")
    ELSE IF a.k = "ninf" THEN Special(a.t, "inf")
    ELSE a

IeeeAdd(t, a, b) ==
    IF a.k = "nan" \/ b.k = "nan" THEN Special(t, "nan")
    ELSE IF a.k = "fin" /\ b.k = "fin" THEN Fin(t, QAdd(a.q, b.q))
    ELSE IF a.k = "fin" THEN Special(t, b.k)
    ELSE IF b.k = "fin" THEN Special(t, a.k)
    ELSE IF a.k = b.k THEN Special(t, a.k)
    ELSE Special(t, "nan")

IeeeMul(t, a, b) ==
    IF a.k = "nan" \/ b.k = "nan" THEN Special(t, "nan")
    ELSE IF a.k = "fin" /\ b.k = "fin" THEN Fin(t, QMul(a.q, b.q))
    ELSE IF XSign(a) * XSign(b) = 0 THEN Special(t, "nan")
    ELSE Special(t, InfOfSign(XSign(a) * XSign(b)))

\* numpy's true division: x/0 is +-inf, 0/0 is nan, nothing is raised
IeeeDiv(t, a, b) ==
    IF a.k = "nan" \/ b.k = "nan" THEN Special(t, "nan")
    ELSE IF b.k = "fin"
         THEN IF b.q[1] = 0
              THEN IF XSign(a) = 0 THEN Special(t, "nan")
                   ELSE Special(t, InfOfSign(XSign(a)))
              ELSE IF a.k = "fin" THEN Fin(t, QDiv(a.q, b.q))
                   ELSE Special(t, InfOfSign(XSign(a) * XSign(b)))
         ELSE IF a.k = "fin" THEN Fin(t, QInt(0))
              ELSE Special(t, "nan")

RECURSIVE PowNat(_, _, _)
\* base ** e for a natural-number exponent e, by repeated multiplication
PowNat(t, a, e) == IF e = 0 THEN Fin(t, QInt(1)) ELSE IeeeMul(t, a, PowNat(t, a, e - 1))

\* natural logarithm and exponential on the arguments the formulas reach, in
\* hundredths: LnHundredths[n] is ln(n) for n in 1..5, and
\* ExpHundredths[2x + 5] is exp(x) for x in -2, -3/2, ..., 4
LnHundredths == <<0, 69, 110, 139, 161>>
ExpHundredths == <<14, 22, 37, 61, 100, 165, 272, 448, 739, 1218, 2009, 3312, 5460>>

Ok(v) == [exc |-> "", v |-> v]
Raise(e) == [exc |-> e, v |-> Special("py", "nan")]

\* one binary operator of a Python expression
BinOp(o, a, b) ==
    LET t == JoinType(a, b)
    IN  IF ~IsNumber(a) \/ ~IsNumber(b) THEN Raise("TypeError")
        ELSE CASE o = "+" -> Ok(IeeeAdd(t, a, b))
               [] o = "-" -> Ok(IeeeAdd(t, a, IeeeNeg(b)))
               [] o = "*" -> Ok(IeeeMul(t, a, b))
               [] o = "/" -> IF t = "py" /\ IsZero(b)
                             THEN Raise("ZeroDivisionError")
                             ELSE Ok(IeeeDiv(t, a, b))
               [] o = "**" /\ b.k = "fin" /\ b.q[2] = 1 /\ b.q[1] >= 0
                          -> Ok(PowNat(t, a, b.q[1]))

np_sqrt(x) ==
    IF x.k = "nan" \/ x.k = "ninf" \/ (x.k = "fin" /\ QSign(x.q) < 0)
    THEN Special("np", "nan")
    ELSE IF x.k = "inf" THEN Special("np", "inf")
    ELSE Fin("np", QSqrt(x.q))

np_log(x) ==
    IF x.k = "nan" \/ x.k = "ninf" \/ (x.k = "fin" /\ QSign(x.q) < 0)
    THEN Special("np", "nan")
    ELSE IF x.k = "inf" THEN Special("np", "inf")
    ELSE IF IsZero(x) THEN Special("np", "ninf")
    ELSE Fin("np", Q(LnHundredths[x.q[1]] - LnHundredths[x.q[2]], 100))

np_exp(x) ==
    IF x.k = "nan" THEN Special("np", "nan")
    ELSE IF x.k = "inf" THEN Special("np", "inf")
    ELSE IF x.k = "ninf" THEN Fin("np", QInt(0))
    ELSE Fin("np", Q(ExpHundredths[(2 * x.q[1]) \div x.q[2] + 5], 100))

np_abs(x) == IF x.k = "fin" THEN Fin("np", QAbs(x.q))
             ELSE IF x.k = "nan" THEN Special("np", "nan") ELSE Special("np", "inf")

py_abs(x) == IF x.k = "fin" THEN Fin(x.t, QAbs(x.q))
             ELSE IF x.k = "nan" THEN x ELSE Special(x.t, "inf")

\* numpy's maximum/minimum propagate NaN
np_maximum(a, b) ==
    IF a.k = "nan" \/ b.k = "nan" THEN Special("np", "nan")
    ELSE IF XLt(a, b) THEN [b EXCEPT !.t = "np"] ELSE [a EXCEPT !.t = "np"]

np_minimum(a, b) ==
    IF a.k = "nan" \/ b.k = "nan" THEN Special("np", "nan")
    ELSE IF XLt(b, a) THEN [b EXCEPT !.t = "np"] ELSE [a EXCEPT !.t = "np"]

\* Python's builtin max/min of two arguments keep the first unless the second
\* compares strictly greater/smaller; a comparison with NaN is false
py_max(a, b) == IF XLt(a, b) THEN b ELSE a
py_min(a, b) == IF XLt(b, a) THEN b ELSE a

\* the call  impl(args)
Apply(impl, args) ==
    IF \E i \in 1..Len(args) : ~IsNumber(args[i]) THEN Raise("TypeError")
    ELSE IF impl \in {"np.sqrt", "np.log", "np.exp", "np.abs", "abs"}
    THEN IF Len(args) # 1 THEN Raise("TypeError")
         ELSE CASE impl = "np.sqrt" -> Ok(np_sqrt(args[1]))
                [] impl = "np.log" -> Ok(np_log(args[1]))
                [] impl = "np.exp" -> Ok(np_exp(args[1]))
                [] impl = "np.abs" -> Ok(np_abs(args[1]))
                [] impl = "abs" -> Ok(py_abs(args[1]))
    ELSE IF Len(args) # 2 THEN Raise("TypeError")
         ELSE CASE impl = "np.maximum" -> Ok(np_maximum(args[1], args[2]))
                [] impl = "np.minimum" -> Ok(np_minimum(args[1], args[2]))
                [] impl = "max" -> Ok(py_max(args[1], args[2]))
                [] impl = "min" -> Ok(py_min(args[1], args[2]))

-----------------------------------------------------------------------------
(* Formulas and Python's eval *)

\* A formula is the expression tree Python parses from the formula text;
\* Unparsable stands for a text that is no Python expression.
Num(q) == [k |-> "num", q |-> q]
Name(s) == [k |-> "name", s |-> s]
Neg(x) == [k |-> "neg", l |-> x]
Bin(o, l, r) == [k |-> "bin", o |-> o, l |-> l, r |-> r]
Call(f, args) == [k |-> "call", f |-> f, args |-> args]
Unparsable == [k |-> "bad"]

MetricNames == {"sharpe", "omega", "volatility", "drawdown", "win_rate",
                "profit_factor", "total_return", "calmar", "sortino"}
WhitelistedFunctions == {"sqrt", "abs", "max", "min", "log", "exp"}
VocabularyOperators == {"+", "-", "*", "/"}

NoNames == [n \in {} |-> Fin("py", QInt(0))]

RECURSIVE Eval(_, _, _)
RECURSIVE EvalArgs(_, _, _)
\* eval(node) with the global/local names  names  (name -> value) and the
\* callables  funcs  (name -> implementation); builtins are disabled, so every
\* other name raises NameError
Eval(node, names, funcs) ==
    CASE node.k = "bad" -> Raise("SyntaxError")
      [] node.k = "num" -> Ok(Fin("py", node.q))
      [] node.k = "name" ->
            IF node.s \in DOMAIN names THEN Ok(names[node.s])
            ELSE IF node.s \in DOMAIN funcs THEN Ok(FuncObj)
            ELSE Raise("NameError")
      [] node.k = "neg" ->
            LET x == Eval(node.l, names, funcs)
            IN  IF x.exc # "" THEN x
                ELSE IF ~IsNumber(x.v) THEN Raise("TypeError")
                ELSE Ok(IeeeNeg(x.v))
      [] node.k = "bin" ->
            LET x == Eval(node.l, names, funcs)
            IN  IF x.exc # "" THEN x
                ELSE LET y == Eval(node.r, names, funcs)
                     IN  IF y.exc # "" THEN y ELSE BinOp(node.o, x.v, y.v)
      [] node.k = "call" ->
            IF node.f \notin DOMAIN names /\ node.f \notin DOMAIN funcs
            THEN Raise("NameError")
            ELSE LET as == EvalArgs(node.args, names, funcs)
                 IN  IF as.exc # "" THEN Raise(as.exc)
                     ELSE IF node.f \in DOMAIN names THEN Raise("TypeError")
                     ELSE Apply(funcs[node.f], as.vs)

\* the arguments of a call, left to right; the first exception wins
EvalArgs(args, names, funcs) ==
    IF args = <<>> THEN [exc |-> "", vs |-> <<>>]
    ELSE LET x == Eval(Head(args), names, funcs)
         IN  IF x.exc # "" THEN [exc |-> x.exc, vs |-> <<>>]
             ELSE LET rest == EvalArgs(Tail(args), names, funcs)
                  IN  IF rest.exc # "" THEN rest
                      ELSE [exc |-> "", vs |-> <<x.v>> \o rest.vs]

\* str(value) as the expression Python reads back from it: a literal, a minus
\* sign in front of a literal, or the bare words  inf / nan
StrOf(v) ==
    CASE v.k = "fin" -> IF QSign(v.q) < 0 THEN Neg(Num(QNeg(v.q))) ELSE Num(v.q)
      [] v.k = "inf" -> Name("inf")
      [] v.k = "ninf" -> Neg(Name("inf"))
      [] v.k = "nan" -> Name("nan")

RECURSIVE Substitute(_, _)
RECURSIVE SubstituteArgs(_, _)
\* formula.replace(key, str(value)) for every metric key, seen on the parsed
\* text: a metric name becomes the text of its value.  A minus sign written in
\* front of the left operand of ** binds looser than **.
Substitute(node, values) ==
    CASE node.k \in {"bad", "num"} -> node
      [] node.k = "name" ->
            IF node.s \in DOMAIN values THEN StrOf(values[node.s]) ELSE node
      [] node.k = "neg" -> Neg(Substitute(node.l, values))
      [] node.k = "bin" ->
            LET l == Substitute(node.l, values)
                r == Substitute(node.r, values)
            IN  IF node.o = "**" /\ node.l.k = "name" /\ l.k = "neg"
                THEN Neg(Bin("**", l.l, r))
                ELSE Bin(node.o, l, r)
      [] node.k = "call" -> Call(node.f, SubstituteArgs(node.args, values))

SubstituteArgs(args, values) ==
    IF args = <<>> THEN <<>>
    ELSE <<Substitute(Head(args), values)>> \o SubstituteArgs(Tail(args), values)

\* float(result)
ToFloat(r) ==
    IF r.exc # "" THEN r
    ELSE IF ~IsNumber(r.v) THEN Raise("TypeError")
    ELSE Ok([r.v EXCEPT !.t = "py"])

\* a clamp that has lost its upper bound
ClampAtZeroOnly(x) == py_max(Fin("py", QInt(0)), x)

\* max(0, min(100, x)) with Python's builtins
Clamp0_100(x) == py_max(Fin("py", QInt(0)), py_min(Fin("py", QInt(100)), x))
\* min(50, max(0, x)) with Python's builtins
Clamp0_50(x) == py_min(Fin("py", QInt(50)), py_max(Fin("py", QInt(0)), x))

MC_safe_dict == [sqrt |-> "np.sqrt", abs |-> "np.abs", max |-> "np.maximum",
                 min |-> "np.minimum", log |-> "np.log", exp |-> "np.exp"]
ST_safe_dict == [sqrt |-> "np.sqrt", abs |-> "abs", max |-> "max",
                 min |-> "min", log |-> "np.log", exp |-> "np.exp"]
OD_safe_dict == [sqrt |-> "np.sqrt", max |-> "max", min |-> "min", abs |-> "abs"]

MC_Fallback == Fin("py", QInt(5))
ST_Fallback == Fin("py", QInt(5))
OD_Fallback == Fin("py", Q(10, 1))

\* what eval(...) followed by float(...) gives for one Monte Carlo trial
MC_eval(formula, sim_values) ==
    ToFloat(Eval(Substitute(formula, sim_values), NoNames, MC_safe_dict))

\* MonteCarloEngine._calculate_allocations, body of the loop for one trial
MC_trial_allocation(formula, sim_values) ==
    LET r == MC_eval(formula, sim_values)
    IN  IF r.exc # "" THEN MC_Fallback ELSE Clamp0_100(r.v)

\* a loop that leaves the trials after the first failing one at their initial 0
MC_allocations_until_failure(formula, trials) ==
    [i \in 1..Len(trials) |->
        IF \E j \in 1..(i - 1) : MC_eval(formula, trials[j]).exc # ""
        THEN Fin("py", QInt(0))
        ELSE MC_trial_allocation(formula, trials[i])]

\* MonteCarloEngine._calculate_allocations: one allocation per trial
MC_calculate_allocations(formula, trials) ==
    [i \in 1..Len(trials) |-> MC_trial_allocation(formula, trials[i])]

ST_eval(formula, m) ==
    ToFloat(Eval(Substitute(formula, m), NoNames, ST_safe_dict))

\* StressTestEngine._calculate_allocation
ST_calculate_allocation(formula, m) ==
    LET r == ST_eval(formula, m)
    IN  IF r.exc # "" THEN ST_Fallback ELSE Clamp0_100(r.v)

OD_eval(formula, m) == ToFloat(Eval(formula, m, OD_safe_dict))

\* OverfittingDetector._evaluate_formula
OD_evaluate_formula(formula, m) ==
    LET r == OD_eval(formula, m)
    IN  IF r.exc # "" THEN OD_Fallback ELSE Clamp0_50(r.v)

-----------------------------------------------------------------------------
(* StrategyModel: the metrics engine on a return series (numpy float64) *)

Zero == Fin("np", QInt(0))
One == Fin("np", QInt(1))
XLe(a, b) == a.k # "nan" /\ b.k # "nan" /\ ~XLt(b, a)
\* the same number, whatever the numeric type
SameNumber(a, b) == a.k = b.k /\ (a.k = "fin" => a.q = b.q)

RECURSIVE SumV(_)
\* np.sum: 0.0 for an empty array
SumV(s) == IF s = <<>> THEN Zero ELSE IeeeAdd("np", Head(s), SumV(Tail(s)))
\* np.mean of a non-empty array
MeanV(s) == IeeeDiv("np", SumV(s), Fin("np", QInt(Len(s))))

\* returns[returns > 0], returns[returns < 0], returns[returns <= 0]
Wins(s) == SelectSeq(s, LAMBDA x : XLt(Zero, x))
Losses(s) == SelectSeq(s, LAMBDA x : XLt(x, Zero))
AtOrBelow(s) == SelectSeq(s, LAMBDA x : XLe(x, Zero))

\* StrategyModel._calculate_win_rate
calculate_win_rate(s) == Fin("np", Q(Len(Wins(s)), Len(s)))

\* StrategyModel._calculate_payoff_ratio
calculate_payoff_ratio(s) ==
    IF Len(Losses(s)) = 0 THEN Special("py", "inf")
    ELSE IF Len(Wins(s)) = 0 THEN Fin("py", QInt(0))
    ELSE IeeeDiv("np", MeanV(Wins(s)), py_abs(MeanV(Losses(s))))

\* StrategyModel._calculate_kelly_criterion
calculate_kelly_criterion(s) ==
    LET win_rate == calculate_win_rate(s)
        payoff_ratio == calculate_payoff_ratio(s)
    IN  IF IsZero(payoff_ratio) THEN Fin("py", QInt(0))
        ELSE IeeeDiv("np",
                     IeeeAdd("np", IeeeMul("np", payoff_ratio, win_rate),
                             IeeeNeg(IeeeAdd("np", One, IeeeNeg(win_rate)))),
                     payoff_ratio)

\* StrategyModel._calculate_profit_factor
calculate_profit_factor(s) ==
    LET gains == SumV(Wins(s))
        losses == py_abs(SumV(Losses(s)))
    IN  IF IsZero(losses) THEN Special("py", "inf")
        ELSE IeeeDiv("np", gains, losses)

\* returns[returns > threshold] - threshold
Gains(s, threshold) ==
    [i \in 1..Len(SelectSeq(s, LAMBDA x : XLt(threshold, x))) |->
        IeeeAdd("np", SelectSeq(s, LAMBDA x : XLt(threshold, x))[i], IeeeNeg(threshold))]
\* threshold - returns[returns <= threshold]
Shortfalls(s, threshold) ==
    [i \in 1..Len(SelectSeq(s, LAMBDA x : XLe(x, threshold))) |->
        IeeeAdd("np", threshold, IeeeNeg(SelectSeq(s, LAMBDA x : XLe(x, threshold))[i]))]

\* StrategyModel._calculate_omega_ratio(threshold)
SM_calculate_omega_ratio(s, threshold) ==
    IF Len(Shortfalls(s, threshold)) = 0 \/ IsZero(SumV(Shortfalls(s, threshold)))
    THEN Special("py", "inf")
    ELSE IeeeDiv("np", SumV(Gains(s, threshold)), SumV(Shortfalls(s, threshold)))

\* AnalysisController.calculate_omega_ratio(returns, threshold)
AC_calculate_omega_ratio(s, threshold) ==
    IF Len(Shortfalls(s, threshold)) = 0 \/ IsZero(SumV(Shortfalls(s, threshold)))
    THEN Special("py", "inf")
    ELSE IeeeDiv("np", SumV(Gains(s, threshold)), SumV(Shortfalls(s, threshold)))

\* neg_omega inside PortfolioModel._max_omega_allocation, on the portfolio
\* returns  returns_matrix.T @ weights
neg_omega(portfolio_returns, threshold) ==
    IF Len(Shortfalls(portfolio_returns, threshold)) = 0
       \/ IsZero(SumV(Shortfalls(portfolio_returns, threshold)))
    THEN Fin("py", QInt(-100))
    ELSE IeeeDiv("np", IeeeNeg(SumV(Gains(portfolio_returns, threshold))),
                 SumV(Shortfalls(portfolio_returns, threshold)))

\* StrategyModel._calculate_omega_ratio with threshold 0
calculate_omega_ratio(s) ==
    LET gains == SumV(Wins(s))
        losses == IeeeNeg(SumV(AtOrBelow(s)))
    IN  IF Len(AtOrBelow(s)) = 0 \/ IsZero(losses) THEN Special("py", "inf")
        ELSE IeeeDiv("np", gains, losses)

\* StrategyModel._calculate_cpc_index
calculate_cpc_index(s) ==
    IeeeMul("np", IeeeMul("np", calculate_win_rate(s), calculate_payoff_ratio(s)),
            calculate_profit_factor(s))

\* the metric mapping _calculate_all_metrics builds from a non-empty series
\* (the ratio metrics of the model; the mapping of the code has 35 entries)
all_metrics(s) ==
    [win_rate |-> calculate_win_rate(s),
     payoff_ratio |-> calculate_payoff_ratio(s),
     kelly_criterion |-> calculate_kelly_criterion(s),
     profit_factor |-> calculate_profit_factor(s),
     omega_ratio |-> calculate_omega_ratio(s),
     cpc_index |-> calculate_cpc_index(s)]

\* StrategyModel._calculate_all_metrics: the metric mapping after the call,
\* given the mapping before it
calculate_all_metrics(s, old) == IF Len(s) = 0 THEN old ELSE all_metrics(s)

-----------------------------------------------------------------------------
(* PortfolioModel: allocations and the six optimization methods *)

\* Python arithmetic on two floats of which the right one is not zero
Plus(a, b) == IeeeAdd(JoinType(a, b), a, b)
Minus(a, b) == IeeeAdd(JoinType(a, b), a, IeeeNeg(b))
Times(a, b) == IeeeMul(JoinType(a, b), a, b)
Over(a, b) == IeeeDiv(JoinType(a, b), a, b)

PyZero == Fin("py", QInt(0))
AsPyFloat(v) == [v EXCEPT !.t = "py"]

RECURSIVE SumOver(_, _)
SumOver(d, keys) ==
    IF keys = {} THEN PyZero
    ELSE LET k == CHOOSE k \in keys : TRUE
         IN  Plus(d[k], SumOver(d, keys \ {k}))
\* sum(d.values())
SumValues(d) == SumOver(d, DOMAIN d)

\* d.get(key, 0)
GetOr0(d, key) == IF key \in DOMAIN d THEN d[key] ELSE PyZero

\* del d[key] for a key of d
Without(d, key) == [k \in DOMAIN d \ {key} |-> d[k]]
\* d[key] = value
With(d, key, value) == [k \in DOMAIN d \cup {key} |-> IF k = key THEN value ELSE d[k]]

\* np.std of a non-empty series (population standard deviation)
Std(s) ==
    LET m == MeanV(s)
        sq == [i \in 1..Len(s) |-> Times(Minus(s[i], m), Minus(s[i], m))]
    IN  np_sqrt(MeanV(sq))

\* PortfolioModel._normalize_allocations
normalize_allocations(a) ==
    LET total == SumValues(a)
    IN  IF XLt(PyZero, total) THEN [k \in DOMAIN a |-> Over(a[k], total)] ELSE a

\* equal weights over the strategies that have a return series only
equal_weight_valid_only(strats) ==
    LET valid == {name \in DOMAIN strats : Len(strats[name].returns) > 0}
    IN  [name \in valid |-> Fin("py", Q(1, Cardinality(valid)))]

\* PortfolioModel._equal_weight_allocation
equal_weight_allocation(strats) ==
    [name \in DOMAIN strats |-> Fin("py", Q(1, Cardinality(DOMAIN strats)))]

\* strategy.returns is not None and len(strategy.returns) > 0
HasReturns(strategy) == Len(strategy.returns) > 0

\* PortfolioModel._risk_parity_allocation
risk_parity_allocation(strats) ==
    LET valid == {name \in DOMAIN strats :
                     /\ HasReturns(strats[name])
                     /\ XLt(Zero, Std(strats[name].returns))}
        inv_vol == [name \in valid |->
                       Over(Fin("py", QInt(1)), Std(strats[name].returns))]
        total_inv_vol == SumValues(inv_vol)
    IN  IF XLt(PyZero, total_inv_vol)
        THEN [name \in valid |-> Over(inv_vol[name], total_inv_vol)]
        ELSE inv_vol

\* the Kelly criterion itself capped to [0, 0.25], without the quarter fraction
kelly_capped_allocation(strats) ==
    LET quarter == Fin("py", Q(1, 4))
        alloc == [name \in DOMAIN strats |->
                     IF "kelly_criterion" \in DOMAIN strats[name].metrics
                     THEN py_max(PyZero, py_min(strats[name].metrics.kelly_criterion, quarter))
                     ELSE Fin("py", Q(2, 100))]
        total == SumValues(alloc)
    IN  IF XLt(PyZero, total)
        THEN [name \in DOMAIN strats |-> Over(alloc[name], total)]
        ELSE alloc

\* PortfolioModel._kelly_allocation
kelly_allocation(strats) ==
    LET quarter == Fin("py", Q(1, 4))
        alloc == [name \in DOMAIN strats |->
                     IF "kelly_criterion" \in DOMAIN strats[name].metrics
                     THEN py_max(PyZero,
                                 py_min(Times(strats[name].metrics.kelly_criterion, quarter),
                                        quarter))
                     ELSE Fin("py", Q(2, 100))]
        total == SumValues(alloc)
    IN  IF XLt(PyZero, total)
        THEN [name \in DOMAIN strats |-> Over(alloc[name], total)]
        ELSE alloc

Min(S) == CHOOSE x \in S : \A y \in S : x <= y
LastN(s, n) == SubSeq(s, Len(s) - n + 1, Len(s))

\* a returns matrix aligned on the oldest observations instead of the latest
get_returns_matrix_left_aligned(strats) ==
    LET valid == {name \in DOMAIN strats : Len(strats[name].returns) > 0}
    IN  IF valid = {} THEN [name \in {} |-> <<>>]
        ELSE LET min_length == Min({Len(strats[name].returns) : name \in valid})
             IN  [name \in valid |-> SubSeq(strats[name].returns, 1, min_length)]

\* PortfolioModel._get_returns_matrix: one row per strategy with a non-empty
\* series, cut to the last min_length observations; the empty mapping is None
get_returns_matrix(strats) ==
    LET valid == {name \in DOMAIN strats : HasReturns(strats[name])}
    IN  IF valid = {} THEN [name \in {} |-> <<>>]
        ELSE LET min_length == Min({Len(strats[name].returns) : name \in valid})
             IN  [name \in valid |-> LastN(strats[name].returns, min_length)]

IsNone(matrix) == DOMAIN matrix = {}
RowLength(matrix) == Len(matrix[CHOOSE name \in DOMAIN matrix : TRUE])

\* an allocation method returns a mapping or raises
Returns(mapping) == [exc |-> "", v |-> mapping]
Raises(e) == [exc |-> e, v |-> [name \in {} |-> PyZero]]

\* entry (a, b) of np.cov(matrix): sample covariance of two rows (ddof = 1)
Cov(matrix, a, b) ==
    LET n == RowLength(matrix)
        ma == MeanV(matrix[a])
        mb == MeanV(matrix[b])
        prods == [t \in 1..n |-> Times(Minus(matrix[a][t], ma), Minus(matrix[b][t], mb))]
    IN  Over(SumV(prods), Fin("np", QInt(n - 1)))

\* inv_cov @ ones for a 2x2 covariance matrix [[a, b], [b, c]], with the
\* Moore-Penrose inverse in closed form: the inverse when the determinant is
\* not 0, M / trace(M)^2 for a matrix of rank 1, the zero matrix for M = 0
PinvTimesOnes(a, b, c) ==
    LET det == Minus(Times(a, c), Times(b, b))
        trace == Plus(a, c)
    IN  IF ~IsZero(det) THEN <<Over(Minus(c, b), det), Over(Minus(a, b), det)>>
        ELSE IF ~IsZero(trace)
        THEN <<Over(Plus(a, b), Times(trace, trace)), Over(Plus(b, c), Times(trace, trace))>>
        ELSE <<Zero, Zero>>

\* weights = np.maximum(weights, 0); weights = weights / weights.sum()
ClipAndRenormalize(w) ==
    <<Over(np_maximum(w[1], Zero), Plus(np_maximum(w[1], Zero), np_maximum(w[2], Zero))),
      Over(np_maximum(w[2], Zero), Plus(np_maximum(w[1], Zero), np_maximum(w[2], Zero)))>>

\* weights = inv_cov @ ones / (ones @ inv_cov @ ones), given u = inv_cov @ ones
OverTotal(u) == <<Over(u[1], Plus(u[1], u[2])), Over(u[2], Plus(u[1], u[2]))>>

\* the minimum-variance weights of two rows with covariance
\* [[cov[1], cov[2]], [cov[2], cov[3]]]
MinVarianceWeights(cov, first, names) ==
    \* the SVD inside pinv does not converge on NaN entries
    IF \E i \in 1..3 : ~IsFinite(cov[i]) THEN Raises("LinAlgError")
    ELSE Returns([name \in names |->
                     AsPyFloat(ClipAndRenormalize(OverTotal(PinvTimesOnes(cov[1], cov[2], cov[3])))
                                   [IF name = first THEN 1 ELSE 2])])

\* the two rows of the matrix in a fixed order
RowPair(matrix, first) ==
    <<matrix[first], matrix[CHOOSE name \in DOMAIN matrix : name # first]>>

\* np.cov of two rows, as <<var(x), cov(x, y), var(y)>>
CovOfPair(rows) ==
    <<Cov(rows, 1, 1), Cov(rows, 1, 2), Cov(rows, 2, 2)>>

MinVarianceOfMatrix(matrix, first) ==
    MinVarianceWeights(CovOfPair(RowPair(matrix, first)), first, DOMAIN matrix)

\* PortfolioModel._min_variance_allocation for at most two strategies
min_variance_allocation(strats) ==
    IF IsNone(get_returns_matrix(strats)) THEN Returns(equal_weight_allocation(strats))
    \* np.cov of a single row is 0-dimensional, which np.linalg.pinv rejects
    ELSE IF Cardinality(DOMAIN get_returns_matrix(strats)) = 1 THEN Raises("LinAlgError")
    ELSE MinVarianceOfMatrix(get_returns_matrix(strats),
                             CHOOSE name \in DOMAIN get_returns_matrix(strats) : TRUE)

\* max_sharpe that takes result.x whether or not the optimizer succeeded
max_sharpe_no_fallback(strats, result) ==
    LET rows == {name \in DOMAIN strats : Len(strats[name].returns) > 0}
    IN  IF rows = {} THEN [exc |-> "", v |-> equal_weight_allocation(strats)]
        ELSE IF rows # DOMAIN strats \/ Cardinality(rows) = 1
        THEN [exc |-> "ValueError", v |-> [name \in {} |-> PyZero]]
        ELSE [exc |-> "", v |-> [name \in DOMAIN strats |-> AsPyFloat(result.x[name])]]

\* PortfolioModel._max_sharpe_allocation; result is what scipy's minimize returns
max_sharpe_allocation(strats, result) ==
    LET matrix == get_returns_matrix(strats)
    IN  IF IsNone(matrix) THEN Returns(equal_weight_allocation(strats))
        \* weights @ mean_returns with fewer rows than strategies, or
        \* weights @ cov_matrix with the 0-dimensional covariance of one row
        ELSE IF Cardinality(DOMAIN matrix) # Cardinality(DOMAIN strats)
                \/ Cardinality(DOMAIN matrix) = 1
        THEN Raises("ValueError")
        ELSE IF result.success
        THEN Returns([name \in DOMAIN strats |-> AsPyFloat(result.x[name])])
        ELSE Returns(equal_weight_allocation(strats))

\* PortfolioModel._max_omega_allocation
max_omega_allocation(strats, result) ==
    LET matrix == get_returns_matrix(strats)
    IN  IF IsNone(matrix) THEN Returns(equal_weight_allocation(strats))
        \* returns_matrix.T @ weights with fewer rows than strategies
        ELSE IF Cardinality(DOMAIN matrix) # Cardinality(DOMAIN strats)
        THEN Raises("ValueError")
        ELSE IF result.success
        THEN Returns([name \in DOMAIN strats |-> AsPyFloat(result.x[name])])
        ELSE Returns(equal_weight_allocation(strats))

\* whether the method reaches the call of scipy's minimize
RunsOptimizer(strats, method) ==
    LET matrix == get_returns_matrix(strats)
    IN  /\ method \in {"max_sharpe", "max_omega"}
        /\ ~IsNone(matrix)
        /\ Cardinality(DOMAIN matrix) = Cardinality(DOMAIN strats)
        /\ (method = "max_sharpe" => Cardinality(DOMAIN matrix) > 1)

Methods == {"equal_weight", "risk_parity", "min_variance", "max_sharpe", "max_omega", "kelly"}

\* methods[method](**kwargs) in optimize_allocations
RunMethod(strats, method, result) ==
    CASE method = "equal_weight" -> Returns(equal_weight_allocation(strats))
      [] method = "risk_parity" -> Returns(risk_parity_allocation(strats))
      [] method = "min_variance" -> min_variance_allocation(strats)
      [] method = "max_sharpe" -> max_sharpe_allocation(strats, result)
      [] method = "max_omega" -> max_omega_allocation(strats, result)
      [] method = "kelly" -> Returns(kelly_allocation(strats))

\* PortfolioModel.calculate_portfolio_returns
calculate_portfolio_returns(strats, allocs) ==
    LET matrix == get_returns_matrix(strats)
        weights == [name \in DOMAIN strats |-> GetOr0(allocs, name)]
    IN  IF IsNone(matrix) THEN <<>>
        ELSE IF Cardinality(DOMAIN strats) # Cardinality(DOMAIN matrix) THEN <<>>
        ELSE IF IsZero(SumValues(weights)) THEN <<>>
        ELSE [t \in 1..RowLength(matrix) |->
                 LET terms == [name \in DOMAIN matrix |->
                                  IeeeMul("np", matrix[name][t], weights[name])]
                 IN  [SumValues(terms) EXCEPT !.t = "np"]]

\* PortfolioModel._calculate_diversification_ratio
calculate_diversification_ratio(strats, allocs) ==
    LET matrix == get_returns_matrix(strats)
        vols == [name \in DOMAIN matrix |->
                    IeeeMul("np", GetOr0(allocs, name), Std(matrix[name]))]
        portfolio_returns == calculate_portfolio_returns(strats, allocs)
        portfolio_vol == Std(portfolio_returns)
    IN  IF IsNone(matrix) THEN Fin("py", QInt(1))
        ELSE IF IsZero(portfolio_vol) THEN Fin("py", QInt(1))
        ELSE IeeeDiv("np", [SumValues(vols) EXCEPT !.t = "np"], portfolio_vol)

\* PortfolioModel._calculate_concentration
calculate_concentration(allocs) ==
    SumValues([k \in DOMAIN allocs |-> Times(allocs[k], allocs[k])])

\* PortfolioModel.calculate_portfolio_metrics: the portfolio metrics after the
\* call, given the mapping before it
calculate_portfolio_metrics(strats, allocs, old) ==
    LET portfolio_returns == calculate_portfolio_returns(strats, allocs)
    IN  IF Len(portfolio_returns) = 0 THEN old
        ELSE [k \in {"num_strategies", "diversification_ratio", "concentration"} |->
                 CASE k = "num_strategies" -> Fin("py", QInt(Cardinality(DOMAIN strats)))
                   [] k = "diversification_ratio" ->
                          calculate_diversification_ratio(strats, allocs)
                   [] k = "concentration" -> calculate_concentration(allocs)]
             @@ all_metrics(portfolio_returns)

-----------------------------------------------------------------------------
(* Construction state of the three components *)

NoMapping == [n \in {} |-> Zero]
NoStrategies == [n \in {} |-> [returns |-> <<>>, metrics |-> NoMapping]]
NoCall == [fn |-> "none", formula |-> Unparsable, trials |-> <<>>, m |-> NoNames]
NoRet == [done |-> FALSE, out |-> <<>>, raw |-> <<>>]
\* no portfolio operation has run yet
NoOp == [op |-> "init", arg |-> "", outcome |-> "ok", opt |-> "none"]

EvalIdle == call = NoCall /\ ret = NoRet
\* StrategyModel.__init__: returns is None, metrics is {}
StrategyIdle == returns = <<>> /\ metrics = NoMapping /\ metricsOf = <<>>
\* PortfolioModel.__init__
PortfolioIdle ==
    /\ strategies = NoStrategies
    /\ allocations = NoMapping
    /\ portfolio_metrics = NoMapping
    /\ manual = NoMapping
    /\ last = NoOp
    /\ ops = 0

-----------------------------------------------------------------------------
(* Specification SpecEval: the three formula evaluators on drawn inputs *)

\* number of Monte Carlo trials in one _calculate_allocations call
MaxTrials == 2

\* values of the two metrics the formulas of the model read.  sharpe is any
\* real; drawdown is 0 (a series that never falls) or positive, and never 0 in
\* a Monte Carlo sample (clipped to [0.001, 0.95]).
SharpeVals == {QInt(-1), QInt(0), QInt(4)}
DrawdownVals == {QInt(0), Q(1, 2)}
MC_DrawdownVals == {Q(1, 2)}

\* metric vectors of numeric type t: sharpe and drawdown vary, the other seven
\* metrics are fixed
MetricVectors(t, drawdowns) ==
    {[n \in MetricNames |-> Fin(t, IF n = "sharpe" THEN s
                                   ELSE IF n = "drawdown" THEN d
                                   ELSE IF n = "win_rate" THEN Q(1, 2)
                                   ELSE QInt(1))] :
        s \in SharpeVals, d \in drawdowns}

\* formula texts: metric names, an unknown identifier, a literal, calls of the
\* whitelisted functions and of a non-whitelisted one, the four operators, and
\* the power operator
Leaves == {Name("sharpe"), Name("drawdown"), Name("foo"), Num(QInt(2))}
Calls1 == {Call(f, <<x>>) : f \in {"sqrt", "abs", "log", "exp", "eval"}, x \in Leaves}
Calls2 == {Call(f, <<x, y>>) : f \in {"max", "min"}, x \in Leaves, y \in Leaves}
Operands == Leaves \cup Calls1
Formulas ==
    Leaves \cup Calls1 \cup Calls2 \cup {Unparsable}
    \cup {Bin(o, l, r) : o \in VocabularyOperators, l \in Operands, r \in Operands}
    \cup {Bin("**", l, Num(QInt(2))) : l \in Operands}

SeqsUpTo(S, n) == UNION {[1..k -> S] : k \in 0..n}

\* the inputs of one evaluator call
EvalInit ==
    /\ \/ \E f \in Formulas, ts \in SeqsUpTo(MetricVectors("np", MC_DrawdownVals), MaxTrials) :
            call = [fn |-> "mc", formula |-> f, trials |-> ts, m |-> NoNames]
       \/ \E fn \in {"st", "od"}, f \in Formulas,
             m \in MetricVectors("py", DrawdownVals)
                   \cup MetricVectors("np", DrawdownVals) :
            call = [fn |-> fn, formula |-> f, trials |-> <<>>, m |-> m]
    /\ ret = NoRet
    /\ StrategyIdle
    /\ PortfolioIdle

\* MonteCarloEngine._calculate_allocations(formula, metrics)
MC_CalculateAllocations ==
    /\ call.fn = "mc" /\ ~ret.done
    /\ ret' = [done |-> TRUE,
               out |-> MC_calculate_allocations(call.formula, call.trials),
               raw |-> [i \in 1..Len(call.trials) |->
                            MC_eval(call.formula, call.trials[i])]]
    /\ UNCHANGED <<call, stratVars, portVars>>

\* StressTestEngine._calculate_allocation(formula, metrics)
ST_CalculateAllocation ==
    /\ call.fn = "st" /\ ~ret.done
    /\ ret' = [done |-> TRUE,
               out |-> <<ST_calculate_allocation(call.formula, call.m)>>,
               raw |-> <<ST_eval(call.formula, call.m)>>]
    /\ UNCHANGED <<call, stratVars, portVars>>

\* OverfittingDetector._evaluate_formula(formula, metrics)
OD_EvaluateFormula ==
    /\ call.fn = "od" /\ ~ret.done
    /\ ret' = [done |-> TRUE,
               out |-> <<OD_evaluate_formula(call.formula, call.m)>>,
               raw |-> <<OD_eval(call.formula, call.m)>>]
    /\ UNCHANGED <<call, stratVars, portVars>>

EvalNext == MC_CalculateAllocations \/ ST_CalculateAllocation \/ OD_EvaluateFormula

SpecEval == EvalInit /\ [][EvalNext]_vars

\* the fallback each evaluator documents
FallbackOf(fn) == IF fn = "od" THEN OD_Fallback
                  ELSE IF fn = "st" THEN ST_Fallback ELSE MC_Fallback

\* the metric vectors the call evaluates the formula on
VectorsOf(c) == IF c.fn = "mc" THEN c.trials ELSE <<c.m>>

RECURSIVE InVocabulary(_)
\* every token of the formula belongs to the closed vocabulary
InVocabulary(node) ==
    CASE node.k = "num" -> TRUE
      [] node.k = "bad" -> TRUE
      [] node.k = "name" -> node.s \in MetricNames
      [] node.k = "neg" -> InVocabulary(node.l)
      [] node.k = "bin" -> /\ node.o \in VocabularyOperators
                           /\ InVocabulary(node.l)
                           /\ InVocabulary(node.r)
      [] node.k = "call" -> /\ node.f \in WhitelistedFunctions
                            /\ \A i \in 1..Len(node.args) : InVocabulary(node.args[i])

\* C1: every evaluator rejects a formula holding a token outside the closed
\* vocabulary: it is never evaluated to a value, and the evaluator yields its
\* fallback (5.0, 5.0, 10.0).
C1_RejectsOutOfVocabulary ==
    (ret.done /\ ~InVocabulary(call.formula)) =>
        \A i \in 1..Len(ret.out) :
            /\ ret.raw[i].exc # ""
            /\ ret.out[i] = FallbackOf(call.fn)

\* the formula is  <anything> / <metric>  and that metric is 0 in vector v
DividesByZeroMetric(f, v) ==
    /\ f.k = "bin" /\ f.o = "/"
    /\ f.r.k = "name" /\ f.r.s \in MetricNames
    /\ IsZero(v[f.r.s])

\* C2: a formula that divides by a metric whose value is 0 never yields NaN or
\* an infinity-derived value: each evaluator returns exactly its fallback,
\* whatever numeric type the metric values have.
C2_DivisionByZeroMetricGivesFallback ==
    ret.done =>
        \A i \in 1..Len(ret.out) :
            DividesByZeroMetric(call.formula, VectorsOf(call)[i]) =>
                ret.out[i] = FallbackOf(call.fn)

\* node is sqrt(metric) with a negative metric or log(metric) with a metric <= 0
IsDomainError(node, v) ==
    /\ node.k = "call" /\ node.f \in {"sqrt", "log"}
    /\ Len(node.args) = 1
    /\ node.args[1].k = "name" /\ node.args[1].s \in MetricNames
    /\ LET x == v[node.args[1].s]
       IN  IF node.f = "sqrt" THEN QSign(x.q) < 0 ELSE QSign(x.q) <= 0

\* evaluating f on v reaches a domain error of sqrt or log: f is such a call,
\* or a vocabulary operator applied to one with the other operand a metric or
\* a literal
HitsDomainError(f, v) ==
    \/ IsDomainError(f, v)
    \/ /\ f.k = "bin" /\ f.o \in VocabularyOperators
       /\ \/ IsDomainError(f.l, v) /\ InVocabulary(f.r)
          \/ IsDomainError(f.r, v) /\ InVocabulary(f.l)

\* C3: when evaluation hits a domain error of log or sqrt the evaluator
\* returns its fallback constant; the allocation is never a clamped NaN or
\* infinity.
C3_DomainErrorGivesFallback ==
    ret.done =>
        \A i \in 1..Len(ret.out) :
            HitsDomainError(call.formula, VectorsOf(call)[i]) =>
                ret.out[i] = FallbackOf(call.fn)

\* the upper end of the evaluator's allocation range, in percent
UpperBoundOf(fn) == IF fn = "od" THEN Fin("py", QInt(50)) ELSE Fin("py", QInt(100))

\* C14: every allocation percentage an evaluator produces lies in its policy
\* range, whether it comes from a successful evaluation or from the fallback:
\* [0, 100] for Monte Carlo trials and Stress Test allocations, [0, 50] for the
\* Overfitting Detector.
C14_AllocationInRange ==
    ret.done =>
        \A i \in 1..Len(ret.out) :
            /\ XLe(Fin("py", QInt(0)), ret.out[i])
            /\ XLe(ret.out[i], UpperBoundOf(call.fn))

\* an evaluation that succeeded with a raw value outside the range (an
\* infinity in the Overfitting Detector, a NaN in the Stress Test)
C14_Witness ==
    /\ ret.done
    /\ \/ call.fn = "od" /\ ret.raw[1].exc = "" /\ ret.raw[1].v.k = "inf"
       \/ call.fn = "st" /\ ret.raw[1].exc = "" /\ ret.raw[1].v.k = "nan"

\* the value of a metric name or literal in vector v
LeafValue(node, v) == IF node.k = "num" THEN Fin("py", node.q) ELSE v[node.s]

\* f is a call of a whitelisted function on metric names or literals, with
\* the right number of arguments, all inside the function's domain
InDomainCall(f, v) ==
    /\ f.k = "call" /\ f.f \in WhitelistedFunctions
    /\ Len(f.args) = (IF f.f \in {"max", "min"} THEN 2 ELSE 1)
    /\ \A i \in 1..Len(f.args) :
           \/ f.args[i].k = "num"
           \/ f.args[i].k = "name" /\ f.args[i].s \in MetricNames
    /\ f.f = "sqrt" => XLe(Fin("py", QInt(0)), LeafValue(f.args[1], v))
    /\ f.f = "log" => XLt(Fin("py", QInt(0)), LeafValue(f.args[1], v))

\* C15: a formula that applies one of the six whitelisted functions to
\* in-domain arguments is evaluated, not replaced by the fallback, by the
\* Monte Carlo, Stress Test and Overfitting Detector evaluators alike, and the
\* three compute the same raw value on the same metric vector.
C15_SameFormulaSurface ==
    ret.done =>
        \A i \in 1..Len(ret.out) :
            InDomainCall(call.formula, VectorsOf(call)[i]) =>
                /\ ret.raw[i].exc = ""
                /\ MC_eval(call.formula, VectorsOf(call)[i]).exc = ""
                /\ ST_eval(call.formula, VectorsOf(call)[i]).exc = ""
                /\ OD_eval(call.formula, VectorsOf(call)[i]).exc = ""
                /\ SameNumber(MC_eval(call.formula, VectorsOf(call)[i]).v,
                              ST_eval(call.formula, VectorsOf(call)[i]).v)
                /\ SameNumber(MC_eval(call.formula, VectorsOf(call)[i]).v,
                              OD_eval(call.formula, VectorsOf(call)[i]).v)

-----------------------------------------------------------------------------
(* Specification SpecStrategy: one StrategyModel under set_returns *)

\* longest return series
MaxLen == 3
\* per-period returns, in percent
ReturnPercents == {-1, 0, 1, 2}

AsReturn(p) == Fin("np", Q(p, 100))
SeriesUpTo(n) == UNION {[1..k -> {AsReturn(p) : p \in ReturnPercents}] : k \in 0..n}

StrategyInit == StrategyIdle /\ EvalIdle /\ PortfolioIdle

\* StrategyModel.set_returns(r)
set_returns(r) ==
    /\ returns' = r
    /\ metrics' = calculate_all_metrics(r, metrics)
    /\ metricsOf' = IF Len(r) = 0 THEN metricsOf ELSE r
    /\ UNCHANGED <<evalVars, portVars>>

StrategyNext == \E r \in SeriesUpTo(MaxLen) : set_returns(r)

SpecStrategy == StrategyInit /\ [][StrategyNext]_vars

\* C6: after every completed set_returns(r) the cached metric mapping is the
\* one computed from r: recomputed from r when r is non-empty, empty when r is
\* empty; the returns never hold one series while the metrics come from an
\* earlier one.
C6_MetricsMatchReturns ==
    /\ metrics = (IF returns = <<>> THEN NoMapping ELSE all_metrics(returns))
    /\ (metrics # NoMapping => metricsOf = returns)

\* C13: after set_returns on a non-empty series, degenerate ones included (all
\* observations positive, all zero, all equal, a single observation), no entry
\* of the metric mapping is NaN: a guarded ratio is 0 or a signed infinity
\* when its denominator is zero.
C13_NoMetricIsNaN ==
    returns # <<>> => \A name \in DOMAIN metrics : metrics[name].k # "nan"

-----------------------------------------------------------------------------
(* Specification SpecPortfolio: one PortfolioModel under its operations *)

\* operations performed on the portfolio in one behaviour
MaxOps == 3
\* scipy's result.x is drawn from the weight vectors k/GridSteps that sum to 1
GridSteps == 2

StrategyNames == {"A", "B"}
\* a key of the allocation mapping that names no strategy
StaleKey == "Z"

\* return series (in percent) of the strategies that are added
ReturnCatalog == {<<2, -1>>, <<-1, 3, 3, -1>>, <<1, 1>>, <<1, -2>>, <<3, -2>>}
Series(percents) == [i \in 1..Len(percents) |-> AsReturn(percents[i])]

\* a StrategyModel as constructed, after set_returns(r), and after
\* set_returns(r) followed by set_returns([])
Fresh == [returns |-> <<>>, metrics |-> NoMapping]
Loaded(r) == [returns |-> r, metrics |-> calculate_all_metrics(r, NoMapping)]
Emptied(r) == [returns |-> <<>>, metrics |-> calculate_all_metrics(<<>>, Loaded(r).metrics)]
StrategyObjects ==
    {Fresh, Emptied(Series(<<2, -1>>))} \cup {Loaded(Series(p)) : p \in ReturnCatalog}

\* weights passed to add_strategy and set_allocation
AddWeights == {PyZero, Fin("py", Q(1, 2))}
ManualKeySets == {{}, {"A"}, {"A", "B"}, {"A", StaleKey}}
ManualValues == {Fin("py", Q(1, 4)), Fin("py", QInt(1))}
ManualWeights == UNION {[keys -> ManualValues] : keys \in ManualKeySets}

Simplex(names) ==
    {x \in [names -> {Fin("np", Q(k, GridSteps)) : k \in 0..GridSteps}] :
        SumValues(x) = Fin("np", QInt(1))}
NoResult == [success |-> FALSE, x |-> NoMapping]
\* what scipy's minimize may return for the method on these strategies
OptimizerResults(strats, method) ==
    IF RunsOptimizer(strats, method)
    THEN {[success |-> ok, x |-> x] : ok \in BOOLEAN, x \in Simplex(DOMAIN strats)}
    ELSE {NoResult}

PortfolioInit == PortfolioIdle /\ EvalIdle /\ StrategyIdle

Done(op, arg, outcome, opt) ==
    /\ last' = [op |-> op, arg |-> arg, outcome |-> outcome, opt |-> opt]
    /\ ops' = ops + 1
    /\ UNCHANGED <<evalVars, stratVars>>

\* PortfolioModel.add_strategy(name, strategy, allocation)
add_strategy(name, strategy, allocation) ==
    /\ ops < MaxOps
    /\ strategies' = With(strategies, name, strategy)
    /\ allocations' = normalize_allocations(With(allocations, name, allocation))
    /\ manual' = IF name \in DOMAIN manual THEN Without(manual, name) ELSE manual
    /\ UNCHANGED portfolio_metrics
    /\ Done("add_strategy", name, "ok", "none")

\* PortfolioModel.remove_strategy(name)
remove_strategy(name) ==
    /\ ops < MaxOps
    /\ IF name \notin DOMAIN strategies
       THEN /\ UNCHANGED <<strategies, allocations, manual>>
            /\ Done("remove_strategy", name, "ok", "none")
       ELSE /\ strategies' = Without(strategies, name)
            /\ IF name \in DOMAIN allocations
               THEN /\ allocations' = Without(allocations, name)
                    /\ manual' = IF name \in DOMAIN manual THEN Without(manual, name)
                                 ELSE manual
                    /\ Done("remove_strategy", name, "ok", "none")
               ELSE /\ UNCHANGED <<allocations, manual>>
                    /\ Done("remove_strategy", name, "KeyError", "none")
    /\ UNCHANGED portfolio_metrics

\* PortfolioModel.set_allocation(w)
set_allocation(w) ==
    /\ ops < MaxOps
    /\ allocations' = w
    /\ manual' = w
    /\ UNCHANGED <<strategies, portfolio_metrics>>
    /\ Done("set_allocation", "", "ok", "none")

\* self.allocations = methods[method](**kwargs); self._normalize_allocations()
StoreResult(r, method, opt) ==
    IF r.exc = ""
    THEN /\ allocations' = normalize_allocations(r.v)
         /\ manual' = NoMapping
         /\ Done("optimize_allocations", method, "ok", opt)
    ELSE /\ UNCHANGED <<allocations, manual>>
         /\ Done("optimize_allocations", method, r.exc, opt)

\* whether scipy's minimize ran, and what it reported
OptimizerOutcome(ran, result) ==
    IF ~ran THEN "none" ELSE IF result.success THEN "converged" ELSE "failed"

\* PortfolioModel.optimize_allocations(method)
optimize_allocations(method, result) ==
    /\ ops < MaxOps
    /\ IF method \in Methods
       THEN StoreResult(RunMethod(strategies, method, result), method,
                        OptimizerOutcome(RunsOptimizer(strategies, method), result))
       ELSE /\ UNCHANGED <<allocations, manual>>
            /\ Done("optimize_allocations", method, "ok", "none")
    /\ UNCHANGED <<strategies, portfolio_metrics>>

Frequencies == {"daily", "weekly", "monthly", "quarterly", "yearly"}

\* PortfolioModel.rebalance(frequency)
rebalance(frequency) ==
    /\ ops < MaxOps
    /\ allocations' = IF frequency \in Frequencies THEN normalize_allocations(allocations)
                      ELSE allocations
    /\ UNCHANGED <<strategies, portfolio_metrics, manual>>
    /\ Done("rebalance", frequency, "ok", "none")

\* PortfolioModel.calculate_portfolio_metrics()
CalculatePortfolioMetrics ==
    /\ ops < MaxOps
    /\ portfolio_metrics' = calculate_portfolio_metrics(strategies, allocations, portfolio_metrics)
    /\ UNCHANGED <<strategies, allocations, manual>>
    /\ Done("calculate_portfolio_metrics", "", "ok", "none")

PortfolioNext ==
    \/ \E name \in StrategyNames, strategy \in StrategyObjects, allocation \in AddWeights :
           add_strategy(name, strategy, allocation)
    \/ \E name \in StrategyNames : remove_strategy(name)
    \/ \E w \in ManualWeights : set_allocation(w)
    \/ \E method \in Methods \cup {"momentum"} :
           \E result \in OptimizerResults(strategies, method) :
               optimize_allocations(method, result)
    \/ \E frequency \in {"monthly", "hourly"} : rebalance(frequency)
    \/ CalculatePortfolioMetrics

SpecPortfolio == PortfolioInit /\ [][PortfolioNext]_vars

-----------------------------------------------------------------------------
(* Claims on the portfolio *)

AfterOptimize(method) == last.op = "optimize_allocations" /\ last.arg = method
\* one weight 1/n for each of the n strategies, and no other key
IsEqualWeight ==
    /\ DOMAIN allocations = DOMAIN strategies
    /\ \A name \in DOMAIN strategies :
           SameNumber(allocations[name], Fin("py", Q(1, Cardinality(DOMAIN strategies))))

\* C4: only optimize_allocations rescales weights: right after
\* set_allocation(w) the stored mapping is w, and every weight set by
\* set_allocation keeps its value through later add_strategy, remove_strategy
\* and rebalance calls (until the key itself is removed or set again).
C4_ManualWeightsKept ==
    /\ (last.op = "set_allocation" => allocations = manual)
    /\ \A key \in DOMAIN manual :
           key \in DOMAIN allocations /\ SameNumber(allocations[key], manual[key])

\* the allocation mapping with the stale keys deleted
LiveAllocations == [key \in DOMAIN allocations \cap DOMAIN strategies |-> allocations[key]]

\* C5: with allocation keys that name no strategy, calculate_portfolio_metrics
\* does not raise, and the portfolio returns and every portfolio metric it
\* stores (concentration included) are those obtained with the stale keys
\* deleted.
C5_StaleAllocationsIgnored ==
    last.op = "calculate_portfolio_metrics" =>
        /\ last.outcome = "ok"
        /\ calculate_portfolio_returns(strategies, allocations)
               = calculate_portfolio_returns(strategies, LiveAllocations)
        /\ portfolio_metrics
               = calculate_portfolio_metrics(strategies, LiveAllocations, portfolio_metrics)

\* C7: after optimize_allocations completes with any of the six methods on a
\* portfolio in which at least one strategy has a non-empty return series,
\* every stored weight lies in [0, 1] and the weights sum to 1.
C7_OptimizedWeightsNormalized ==
    (/\ last.op = "optimize_allocations"
     /\ last.arg \in Methods
     /\ last.outcome = "ok"
     /\ \E name \in DOMAIN strategies : HasReturns(strategies[name]))
    => /\ \A key \in DOMAIN allocations :
              XLe(PyZero, allocations[key]) /\ XLe(allocations[key], One)
       /\ SameNumber(SumValues(allocations), One)

\* C8: optimize_allocations('equal_weight') on n >= 1 strategies stores exactly
\* n weights, one per strategy name, each 1/n and summing to 1, whatever the
\* allocations were before; on no strategy it stores the empty mapping; it
\* never raises.
C8_EqualWeight ==
    AfterOptimize("equal_weight") =>
        /\ last.outcome = "ok"
        /\ IsEqualWeight
        /\ (DOMAIN strategies # {} => SameNumber(SumValues(allocations), One))
        /\ (DOMAIN strategies = {} => allocations = NoMapping)

C8_Witness ==
    /\ AfterOptimize("equal_weight")
    /\ Cardinality(DOMAIN strategies) = 2
    /\ \E name \in DOMAIN strategies : ~HasReturns(strategies[name])

\* C9: min_variance, max_sharpe and max_omega store exactly the equal_weight
\* allocation, without raising, when no strategy has a non-empty return
\* series, and max_sharpe and max_omega also when the numeric optimizer
\* reports failure.
C9_FallbackToEqualWeight ==
    (/\ last.op = "optimize_allocations"
     /\ last.arg \in {"min_variance", "max_sharpe", "max_omega"}
     /\ \/ \A name \in DOMAIN strategies : ~HasReturns(strategies[name])
        \/ last.opt = "failed")
    => last.outcome = "ok" /\ IsEqualWeight

C9_Witness ==
    /\ AfterOptimize("max_sharpe")
    /\ last.opt = "failed"
    /\ Cardinality(DOMAIN strategies) = 2

HasKelly(strategy) == "kelly_criterion" \in DOMAIN strategy.metrics
KellyOf(strategy) == strategy.metrics.kelly_criterion
Quarter == Fin("py", Q(1, 4))
\* x clipped to [0, 0.25]
Clip025(x) == IF XLt(x, PyZero) THEN PyZero ELSE IF XLt(Quarter, x) THEN Quarter ELSE x
KellyInRange(strategy) ==
    /\ HasKelly(strategy)
    /\ XLe(PyZero, KellyOf(strategy))
    /\ XLe(KellyOf(strategy), Quarter)

\* C10 as stated: the kelly method gives every strategy the pre-normalization
\* weight  Kelly capped to [0, 0.25]  (0.02 without the metric), and the final
\* weights are those values divided by their total.
C10_KellyCappedThenNormalized ==
    (AfterOptimize("kelly") /\ \A name \in DOMAIN strategies :
         HasKelly(strategies[name]) => IsFinite(KellyOf(strategies[name])))
    => LET pre == [name \in DOMAIN strategies |->
                      IF HasKelly(strategies[name]) THEN Clip025(KellyOf(strategies[name]))
                      ELSE Fin("py", Q(2, 100))]
           total == SumValues(pre)
       IN  XLt(PyZero, total) =>
               /\ DOMAIN allocations = DOMAIN strategies
               /\ \A name \in DOMAIN strategies :
                      SameNumber(allocations[name], Over(pre[name], total))

\* C10 amended: the kelly method gives every strategy the pre-normalization
\* weight  a quarter of its Kelly criterion capped to [0, 0.25]  (0 for a NaN
\* Kelly value, 0.02 without the metric); the final weights are those values
\* divided by their total when the total is positive and the values
\* themselves (all 0) otherwise; so two strategies whose Kelly values are both
\* in [0, 0.25] get final weights in the ratio of their Kelly values.
C10_QuarterKellyThenNormalized ==
    AfterOptimize("kelly") =>
        LET pre == [name \in DOMAIN strategies |->
                       IF ~HasKelly(strategies[name]) THEN Fin("py", Q(2, 100))
                       ELSE IF KellyOf(strategies[name]).k = "nan" THEN PyZero
                       ELSE Clip025(Times(Quarter, KellyOf(strategies[name])))]
            total == SumValues(pre)
        IN  /\ last.outcome = "ok"
            /\ DOMAIN allocations = DOMAIN strategies
            /\ \A name \in DOMAIN strategies :
                   SameNumber(allocations[name],
                              IF XLt(PyZero, total) THEN Over(pre[name], total) ELSE PyZero)
            /\ \A a, b \in DOMAIN strategies :
                   KellyInRange(strategies[a]) /\ KellyInRange(strategies[b])
                   => SameNumber(Times(allocations[a], KellyOf(strategies[b])),
                                 Times(allocations[b], KellyOf(strategies[a])))

C10_Witness ==
    /\ AfterOptimize("kelly")
    /\ \E a, b \in DOMAIN strategies :
           /\ KellyInRange(strategies[a]) /\ KellyInRange(strategies[b])
           /\ XLt(PyZero, KellyOf(strategies[a]))
           /\ XLt(KellyOf(strategies[a]), KellyOf(strategies[b]))

\* the names of the strategies with a non-empty return series
WithReturns == {name \in DOMAIN strategies : HasReturns(strategies[name])}

\* C11: the return matrix has one row per strategy with a non-empty series,
\* all rows as long as the shortest such series, each holding the last
\* observations of its strategy in order; with no strategy or no non-empty
\* series there is no matrix and calculate_portfolio_returns gives the empty
\* array.
C11_ReturnMatrixRightAligned ==
    IF WithReturns = {}
    THEN /\ IsNone(get_returns_matrix(strategies))
         /\ calculate_portfolio_returns(strategies, allocations) = <<>>
    ELSE /\ DOMAIN get_returns_matrix(strategies) = WithReturns
         /\ \A name \in WithReturns :
                /\ Len(get_returns_matrix(strategies)[name]) <= Len(strategies[name].returns)
                /\ \E other \in WithReturns :
                       Len(get_returns_matrix(strategies)[name]) = Len(strategies[other].returns)
                /\ \A i \in 1..Len(get_returns_matrix(strategies)[name]) :
                       get_returns_matrix(strategies)[name][i]
                           = strategies[name].returns[Len(strategies[name].returns)
                                 - Len(get_returns_matrix(strategies)[name]) + i]
         /\ \A a, b \in WithReturns :
                Len(get_returns_matrix(strategies)[a]) <= Len(strategies[b].returns)

\* two strategies with series of different lengths whose first and last
\* observations differ, after the portfolio returns were computed
C11_Witness ==
    /\ last.op = "calculate_portfolio_metrics"
    /\ \E a, b \in WithReturns :
           /\ Len(strategies[a].returns) < Len(strategies[b].returns)
           /\ Head(strategies[b].returns) # get_returns_matrix(strategies)[b][1]

-----------------------------------------------------------------------------
(* Specification SpecOmega: the three Omega computations on one series *)

\* thresholds, in percent
ThresholdPercents == {0, 1}

NotComputed == [done |-> FALSE, v |-> Zero]
Computed(v) == [done |-> TRUE, v |-> v]

\* a non-empty return series and a threshold; nothing computed yet
OmegaInit ==
    /\ \E s \in SeriesUpTo(MaxLen) \ {<<>>}, p \in ThresholdPercents :
           call = [fn |-> "omega", returns |-> s, threshold |-> Fin("py", Q(p, 100))]
    /\ ret = [sm |-> NotComputed, ac |-> NotComputed, opt |-> NotComputed]
    /\ StrategyIdle
    /\ PortfolioIdle

\* StrategyModel._calculate_omega_ratio(threshold) on the series
SM_CalculateOmegaRatio ==
    /\ ~ret.sm.done
    /\ ret' = [ret EXCEPT !.sm = Computed(SM_calculate_omega_ratio(call.returns, call.threshold))]
    /\ UNCHANGED <<call, stratVars, portVars>>

\* AnalysisController.calculate_omega_ratio(returns, threshold)
AC_CalculateOmegaRatio ==
    /\ ~ret.ac.done
    /\ ret' = [ret EXCEPT !.ac = Computed(AC_calculate_omega_ratio(call.returns, call.threshold))]
    /\ UNCHANGED <<call, stratVars, portVars>>

\* one evaluation of the max-Omega objective, on a portfolio whose returns are
\* the series (a single strategy with weight 1)
NegOmega ==
    /\ ~ret.opt.done
    /\ ret' = [ret EXCEPT !.opt = Computed(neg_omega(call.returns, call.threshold))]
    /\ UNCHANGED <<call, stratVars, portVars>>

OmegaNext == SM_CalculateOmegaRatio \/ AC_CalculateOmegaRatio \/ NegOmega

SpecOmega == OmegaInit /\ [][OmegaNext]_vars

\* C12: for the same series and threshold the Metrics Engine, the
\* AnalysisController and the optimizer's objective (negated) give the same
\* Omega ratio, and each gives +infinity when there is no shortfall or the
\* shortfalls sum to 0.
C12_OmegaSameEverywhere ==
    (ret.sm.done /\ ret.ac.done /\ ret.opt.done) =>
        /\ SameNumber(ret.sm.v, ret.ac.v)
        /\ SameNumber(ret.sm.v, IeeeNeg(ret.opt.v))
        /\ (\A i \in 1..Len(call.returns) : XLe(call.threshold, call.returns[i]))
               => /\ ret.sm.v.k = "inf"
                  /\ ret.ac.v.k = "inf"
                  /\ ret.opt.v.k = "ninf"

-----------------------------------------------------------------------------
(* StressTestEngine: scenarios, stressed metrics and impact analysis *)

\* a Python float literal given in hundredths
Hundredths(n) == Fin("py", Q(n, 100))
PyNum(n) == Fin("py", QInt(n))

StressScenario(name, sharpe_impact, omega_impact, volatility_multiplier, drawdown_multiplier, win_rate_impact, duration_months) ==
    [name |-> name,
     sharpe_impact |-> Hundredths(sharpe_impact),
     omega_impact |-> Hundredths(omega_impact),
     volatility_multiplier |-> Hundredths(volatility_multiplier),
     drawdown_multiplier |-> Hundredths(drawdown_multiplier),
     win_rate_impact |-> Hundredths(win_rate_impact),
     duration_months |-> duration_months]

\* StressTestEngine._create_historical_scenarios (impacts and multipliers in
\* hundredths)
create_historical_scenarios ==
    <<StressScenario("Black Monday 1987", -250, -60, 320, 450, -35, 6),
      StressScenario("Dot-com Crash 2000", -180, -45, 210, 280, -25, 24),
      StressScenario("Lehman Crisis 2008", -320, -80, 410, 520, -42, 18),
      StressScenario("Flash Crash 2010", -380, -70, 620, 450, -48, 1),
      StressScenario("COVID-19 2020", -210, -52, 530, 380, -38, 3),
      StressScenario("Taux Fed 2022", -120, -28, 190, 210, -18, 12),
      StressScenario("Extreme Synthetique", -500, -120, 1000, 800, -70, 36)>>

\* StressTestEngine._get_baseline_metrics without base_metrics
DefaultBaseline ==
    [n \in MetricNames |->
        CASE n = "sharpe" -> Hundredths(40)
          [] n = "omega" -> Hundredths(105)
          [] n = "volatility" -> Hundredths(18)
          [] n = "drawdown" -> Hundredths(12)
          [] n = "win_rate" -> Hundredths(52)
          [] n = "profit_factor" -> Hundredths(115)
          [] n = "total_return" -> Hundredths(8)
          [] n = "calmar" -> Hundredths(60)
          [] n = "sortino" -> Hundredths(50)]

\* StressTestEngine._get_baseline_metrics: an empty or missing mapping is falsy
get_baseline_metrics(base_metrics) ==
    IF DOMAIN base_metrics = {} THEN DefaultBaseline ELSE base_metrics

\* StressTestEngine._apply_stress
apply_stress(baseline, scenario) ==
    [n \in MetricNames |->
        CASE n = "sharpe" ->
                 py_max(Hundredths(-300), Plus(baseline.sharpe, scenario.sharpe_impact))
          [] n = "omega" ->
                 py_max(Hundredths(10), Plus(baseline.omega, scenario.omega_impact))
          [] n = "volatility" -> Times(baseline.volatility, scenario.volatility_multiplier)
          [] n = "drawdown" ->
                 py_min(Hundredths(95), Times(baseline.drawdown, scenario.drawdown_multiplier))
          [] n = "win_rate" ->
                 py_max(Hundredths(5), Plus(baseline.win_rate, scenario.win_rate_impact))
          [] n = "profit_factor" ->
                 py_max(Hundredths(20),
                        Times(baseline.profit_factor,
                              Plus(Hundredths(100), scenario.omega_impact)))
          [] n = "total_return" ->
                 Times(baseline.total_return,
                       Plus(Hundredths(100), Times(scenario.sharpe_impact, Hundredths(30))))
          [] n = "calmar" ->
                 py_max(Hundredths(10),
                        Times(baseline.calmar,
                              Plus(Hundredths(100),
                                   Times(scenario.sharpe_impact, Hundredths(20)))))
          [] n = "sortino" ->
                 py_max(Hundredths(10),
                        Plus(baseline.sortino, Times(scenario.sharpe_impact, Hundredths(80))))]

\* np.mean(factors) of _calculate_scenario_severity
MeanOfFactors(scenario) ==
    Over(SumV(<<Over(py_abs(scenario.sharpe_impact), Hundredths(500)),
                Over(py_abs(scenario.omega_impact), Hundredths(120)),
                Over(Minus(scenario.volatility_multiplier, Hundredths(100)), Hundredths(900)),
                Over(Minus(scenario.drawdown_multiplier, Hundredths(100)), Hundredths(700)),
                Over(py_abs(scenario.win_rate_impact), Hundredths(70))>>),
         Hundredths(500))

\* StressTestEngine._calculate_scenario_severity
calculate_scenario_severity(scenario) ==
    py_min(Hundredths(100), MeanOfFactors(scenario))

\* (stressed / baseline - 1) * 100 of one metric; the division raises when both
\* are Python floats and the baseline is 0
IncreasePct(stressed, baseline) ==
    IF JoinType(stressed, baseline) = "py" /\ IsZero(baseline)
    THEN Raise("ZeroDivisionError")
    ELSE Ok(Times(Minus(Over(stressed, baseline), Hundredths(100)), Hundredths(10000)))

\* resolution of the rounded powers of the ruin probability
RuinScale == 40000

\* a fraction of [0, 1] in units of 1/RuinScale, rounded down
ToFixed(q) ==
    IF q[1] <= 50000 THEN (q[1] * RuinScale) \div q[2]
    ELSE q[1] \div (q[2] \div RuinScale)

RECURSIVE FixedPow(_, _)
\* base ** n in units of 1/RuinScale, each product rounded down
FixedPow(base, n) ==
    IF n = 0 THEN RuinScale ELSE (FixedPow(base, n - 1) * base) \div RuinScale

\* allocation_ratio * severity * 0.8
worst_case_loss(scenario, stressed_alloc) ==
    Times(Times(Over(stressed_alloc, Hundredths(10000)),
                calculate_scenario_severity(scenario)),
          Hundredths(80))

\* (allocation_ratio ** 2) * 0.02
monthly_ruin_prob(stressed_alloc) ==
    Times(Times(Over(stressed_alloc, Hundredths(10000)),
                Over(stressed_alloc, Hundredths(10000))),
          Hundredths(2))

\* min(0.95, 1 - (1 - monthly_ruin_prob) ** scenario.duration_months)
prob_ruin(scenario, stressed_alloc) ==
    py_min(Hundredths(95),
           Fin("py", Q(RuinScale
                       - FixedPow(RuinScale - ToFixed(monthly_ruin_prob(stressed_alloc).q),
                                  scenario.duration_months),
                       RuinScale)))

\* StressTestEngine._calculate_risk_score (the labels without their symbols)
calculate_risk_score(allocation, ruin, worst_case) ==
    IF /\ XLe(allocation, PyNum(2)) /\ XLe(ruin, PyNum(5)) /\ XLe(worst_case, PyNum(10))
    THEN "TRES FAIBLE"
    ELSE IF /\ XLe(allocation, PyNum(5)) /\ XLe(ruin, PyNum(15))
            /\ XLe(worst_case, PyNum(25))
    THEN "FAIBLE"
    ELSE IF /\ XLe(allocation, PyNum(15)) /\ XLe(ruin, PyNum(35))
            /\ XLe(worst_case, PyNum(50))
    THEN "MODERE"
    ELSE IF /\ XLe(allocation, PyNum(30)) /\ XLe(ruin, PyNum(60))
            /\ XLe(worst_case, PyNum(75))
    THEN "ELEVE"
    ELSE "EXTREME"

\* the StressTestResults built by _analyze_impact, given its two increases
\* (recovery_months is left out); risk_arguments are the arguments with which
\* _calculate_risk_score was called
StressTestResults(scenario, baseline_alloc, stressed_alloc, baseline_metrics, stressed_metrics, volatility_increase, drawdown_increase) ==
    [scenario_name |-> scenario.name,
     original_allocation |-> baseline_alloc,
     stressed_allocation |-> stressed_alloc,
     allocation_change_pct |->
         Times(Over(Minus(stressed_alloc, baseline_alloc),
                    py_max(baseline_alloc, Hundredths(1))),
               Hundredths(10000)),
     expected_loss |->
         Times(Times(Times(Over(stressed_alloc, Hundredths(10000)),
                           calculate_scenario_severity(scenario)),
                     Hundredths(30)),
               Hundredths(10000)),
     worst_case_loss |->
         Times(worst_case_loss(scenario, stressed_alloc), Hundredths(10000)),
     probability_ruin |->
         Times(prob_ruin(scenario, stressed_alloc), Hundredths(10000)),
     risk_score |->
         calculate_risk_score(stressed_alloc, prob_ruin(scenario, stressed_alloc),
                              worst_case_loss(scenario, stressed_alloc)),
     risk_arguments |->
         [allocation |-> stressed_alloc,
          prob_ruin |-> prob_ruin(scenario, stressed_alloc),
          worst_case |-> worst_case_loss(scenario, stressed_alloc)],
     impact_analysis |->
         [sharpe_degradation |-> Minus(stressed_metrics.sharpe, baseline_metrics.sharpe),
          volatility_increase |-> volatility_increase,
          drawdown_increase |-> drawdown_increase,
          win_rate_drop |->
              Times(Minus(stressed_metrics.win_rate, baseline_metrics.win_rate),
                    Hundredths(10000))]]

\* the result of _analyze_impact once both increases are computed, or the
\* exception of the first one that raised
ImpactOf(scenario, baseline_alloc, stressed_alloc, baseline_metrics, stressed_metrics, vol, dd) ==
    IF vol.exc # "" THEN [exc |-> vol.exc, v |-> <<>>]
    ELSE IF dd.exc # "" THEN [exc |-> dd.exc, v |-> <<>>]
    ELSE [exc |-> "",
          v |-> <<StressTestResults(scenario, baseline_alloc, stressed_alloc,
                                    baseline_metrics, stressed_metrics, vol.v, dd.v)>>]

\* StressTestEngine._analyze_impact
analyze_impact(scenario, baseline_alloc, stressed_alloc, baseline_metrics, stressed_metrics) ==
    ImpactOf(scenario, baseline_alloc, stressed_alloc, baseline_metrics, stressed_metrics,
             IncreasePct(stressed_metrics.volatility, baseline_metrics.volatility),
             IncreasePct(stressed_metrics.drawdown, baseline_metrics.drawdown))

\* the body of the loop of run_stress_test for one scenario
StressOne(formula, baseline_metrics, stressed_metrics, scenario) ==
    analyze_impact(scenario,
                   ST_calculate_allocation(formula, baseline_metrics),
                   ST_calculate_allocation(formula, stressed_metrics),
                   baseline_metrics, stressed_metrics)

PrependTo(v, later) ==
    IF later.exc # "" THEN later ELSE [exc |-> "", v |-> v \o later.v]

RECURSIVE StressAll(_, _, _)
\* results.append(...) followed by the rest of the loop; an exception ends it
AppendResults(first, formula, baseline_metrics, rest) ==
    IF first.exc # "" THEN first
    ELSE PrependTo(first.v, StressAll(formula, baseline_metrics, rest))

\* the loop of run_stress_test: the results so far, or the first exception
StressAll(formula, baseline_metrics, scenarios) ==
    IF scenarios = <<>> THEN [exc |-> "", v |-> <<>>]
    ELSE AppendResults(StressOne(formula, baseline_metrics,
                                 apply_stress(baseline_metrics, Head(scenarios)),
                                 Head(scenarios)),
                       formula, baseline_metrics, Tail(scenarios))

\* scenarios = [s for s in self.scenarios if s.name == scenario_name], or all
\* of them for a missing (falsy) name
SelectedScenarios(scenario_name) ==
    IF scenario_name = "" THEN create_historical_scenarios
    ELSE SelectSeq(create_historical_scenarios, LAMBDA sc : sc.name = scenario_name)

\* StressTestEngine.run_stress_test(formula, scenario_name, base_metrics)
run_stress_test(formula, scenario_name, base_metrics) ==
    StressAll(formula, get_baseline_metrics(base_metrics), SelectedScenarios(scenario_name))

-----------------------------------------------------------------------------
(* MonteCarloEngine.run_simulation *)

\* a MonteCarloResults (the figures computed from the simulated returns, which
\* are random draws, are left out)
MonteCarloResults(allocs) ==
    [allocation_per_strategy |-> MeanV(allocs), total_simulations |-> Len(allocs)]

\* MonteCarloEngine._calculate_metrics on n simulated returns: np.min of an
\* empty drawdown array raises
MC_calculate_metrics(allocs) ==
    IF Len(allocs) = 0 THEN [exc |-> "ValueError", allocations |-> allocs, results |-> <<>>]
    ELSE [exc |-> "", allocations |-> allocs, results |-> <<MonteCarloResults(allocs)>>]

\* MonteCarloEngine.run_simulation(formula, n_simulations); samples are the
\* n_simulations metric vectors drawn by _generate_realistic_distributions,
\* whose np.random calls raise on a negative size
run_simulation(formula, n_simulations, samples) ==
    IF n_simulations < 0
    THEN [exc |-> "ValueError", allocations |-> <<>>, results |-> <<>>]
    ELSE MC_calculate_metrics(MC_calculate_allocations(formula, samples))

-----------------------------------------------------------------------------
(* Specification SpecRuns: one Monte Carlo run or one stress-test run *)

\* formulas of a run: one that evaluates everywhere, an unknown name, two that
\* divide by zero on some metric vectors only, one that divides by a metric,
\* and a text that is no expression
RunFormulas ==
    {Name("sharpe"), Name("foo"), Unparsable,
     Bin("/", Name("sharpe"), Name("sharpe")),
     Bin("/", Num(QInt(1)), Bin("+", Name("sharpe"), Num(QInt(3)))),
     Bin("/", Name("sharpe"), Name("drawdown"))}

\* n_simulations of a run
TrialCounts == -1..MaxTrials

\* scenario_name: missing, two table entries, a name that is not in the table
ScenarioNames == {"", "Flash Crash 2010", "Taux Fed 2022", "Asian Crisis 1997"}

\* base_metrics: missing, or the nine metrics of a loaded strategy as Python
\* floats or numpy floats, with a volatility and a drawdown that may be 0
BaseMetrics ==
    {NoNames} \cup
    {[n \in MetricNames |->
         IF n = "volatility" THEN Fin(t, Q(v, 100))
         ELSE IF n = "drawdown" THEN Fin(t, Q(d, 100))
         ELSE [DefaultBaseline[n] EXCEPT !.t = t]] :
        t \in {"py", "np"}, v \in {0, 18}, d \in {0, 12}}

RunsInit ==
    /\ \/ \E f \in RunFormulas, n \in TrialCounts :
            \E ts \in [1..(IF n < 0 THEN 0 ELSE n) -> MetricVectors("np", MC_DrawdownVals)] :
                call = [fn |-> "run_simulation", formula |-> f, n_simulations |-> n,
                        samples |-> ts, scenario_name |-> "", base_metrics |-> NoNames]
       \/ \E f \in RunFormulas, name \in ScenarioNames, base \in BaseMetrics :
            call = [fn |-> "run_stress_test", formula |-> f, n_simulations |-> 0,
                    samples |-> <<>>, scenario_name |-> name, base_metrics |-> base]
    /\ ret = [done |-> FALSE, exc |-> "", allocations |-> <<>>, results |-> <<>>]
    /\ StrategyIdle
    /\ PortfolioIdle

\* the outcome of a run: the exception it raised, if any, and what it computed
Outcome(r) == [done |-> TRUE, exc |-> r.exc, allocations |-> r.allocations,
               results |-> r.results]

\* MonteCarloEngine.run_simulation(formula, n_simulations)
RunSimulation ==
    /\ call.fn = "run_simulation" /\ ~ret.done
    /\ ret' = Outcome(run_simulation(call.formula, call.n_simulations, call.samples))
    /\ UNCHANGED <<call, stratVars, portVars>>

\* a stress-test run returns its list of results or raises
StressOutcome(r) == [done |-> TRUE, exc |-> r.exc, allocations |-> <<>>, results |-> r.v]

\* StressTestEngine.run_stress_test(formula, scenario_name, base_metrics)
RunStressTest ==
    /\ call.fn = "run_stress_test" /\ ~ret.done
    /\ ret' = StressOutcome(run_stress_test(call.formula, call.scenario_name,
                                           call.base_metrics))
    /\ UNCHANGED <<call, stratVars, portVars>>

RunsNext == RunSimulation \/ RunStressTest

SpecRuns == RunsInit /\ [][RunsNext]_vars

\* a formula whose evaluation never fails
FiveEverywhere == Num(QInt(5))

\* what the evaluator must give on one metric vector: the clamped value, or
\* 5.0 when the evaluation fails
ExpectedAllocation(r) == IF r.exc # "" THEN Fin("py", QInt(5)) ELSE Clamp0_100(r.v)

\* stressed metrics of the i-th selected scenario of the call
StressedVector(c, i) ==
    apply_stress(get_baseline_metrics(c.base_metrics), SelectedScenarios(c.scenario_name)[i])

\* C16: a formula evaluation failure never aborts a batch.  A Monte Carlo run
\* of n trials computes n allocations, 5.0 for each trial whose evaluation
\* fails and the clamped value of its own sample for every other trial; a
\* stress-test run returns exactly one result per selected scenario, with 5.0
\* wherever the formula fails on the baseline or on a stressed vector.  Whether
\* a run returns at all does not depend on the formula.
C16_FailureNeverAbortsBatch ==
    ret.done =>
        /\ (call.fn = "run_simulation" /\ call.n_simulations >= 0) =>
               /\ Len(ret.allocations) = call.n_simulations
               /\ \A i \in 1..Len(ret.allocations) :
                      SameNumber(ret.allocations[i],
                                 ExpectedAllocation(MC_eval(call.formula, call.samples[i])))
               /\ ret.exc = run_simulation(FiveEverywhere, call.n_simulations,
                                           call.samples).exc
        /\ call.fn = "run_stress_test" =>
               /\ ret.exc = run_stress_test(FiveEverywhere, call.scenario_name,
                                            call.base_metrics).exc
               /\ ret.exc = "" =>
                      /\ Len(ret.results) = Len(SelectedScenarios(call.scenario_name))
                      /\ \A i \in 1..Len(ret.results) :
                             /\ ret.results[i].scenario_name
                                    = SelectedScenarios(call.scenario_name)[i].name
                             /\ SameNumber(ret.results[i].original_allocation,
                                           ExpectedAllocation(
                                               ST_eval(call.formula,
                                                       get_baseline_metrics(call.base_metrics))))
                             /\ SameNumber(ret.results[i].stressed_allocation,
                                           ExpectedAllocation(
                                               ST_eval(call.formula, StressedVector(call, i))))

\* a stress-test run over the seven scenarios whose formula evaluates on the
\* baseline and fails on one stressed vector only
C16_Witness ==
    /\ ret.done /\ call.fn = "run_stress_test" /\ call.scenario_name = ""
    /\ ST_eval(call.formula, get_baseline_metrics(call.base_metrics)).exc = ""
    /\ \E i \in 1..Len(ret.results) :
           ST_eval(call.formula, StressedVector(call, i)).exc = "ZeroDivisionError"
    /\ \E i \in 1..Len(ret.results) :
           ST_eval(call.formula, StressedVector(call, i)).exc = ""
    /\ Len(ret.results) = Len(create_historical_scenarios)

\* C17: run_simulation with a negative n_simulations fails with an error
\* before any trial is simulated and returns no MonteCarloResults, and that is
\* the only case in which it raises: any n_simulations >= 0 with any formula
\* returns a result.
C17_OnlyNegativeCountRaises ==
    (ret.done /\ call.fn = "run_simulation") =>
        /\ call.n_simulations < 0 =>
               ret.exc # "" /\ ret.allocations = <<>> /\ ret.results = <<>>
        /\ call.n_simulations >= 0 =>
               ret.exc = "" /\ Len(ret.results) = 1

\* C18: run_stress_test never raises on a degenerate baseline: for any
\* baseline vector of the nine metrics, volatility = 0 or drawdown = 0
\* included, it returns one result per selected scenario, and an impact figure
\* with a zero denominator is a sentinel (0 or a signed infinity), not NaN.
C18_DegenerateBaselineGivesResults ==
    (ret.done /\ call.fn = "run_stress_test") =>
        /\ ret.exc = ""
        /\ Len(ret.results) = Len(SelectedScenarios(call.scenario_name))
        /\ \A i \in 1..Len(ret.results) :
               /\ ret.results[i].impact_analysis.volatility_increase.k # "nan"
               /\ ret.results[i].impact_analysis.drawdown_increase.k # "nan"

-----------------------------------------------------------------------------
(* Specification SpecSeverity: the severity of two scenarios *)

\* scenarios outside the table: strong impacts with small multipliers, a pure
\* volatility and drawdown shock, and a scenario in which both shrink
CustomScenarios ==
    {StressScenario("Impacts Only", -500, -120, 200, 200, -70, 12),
     StressScenario("Multipliers Only", 0, 0, 300, 300, 0, 12),
     StressScenario("Calm", 0, 0, 50, 50, 0, 12)}

AnyScenario ==
    {create_historical_scenarios[i] : i \in 1..Len(create_historical_scenarios)}
    \cup CustomScenarios

SeverityInit ==
    /\ \E a \in AnyScenario, b \in AnyScenario :
           call = [fn |-> "calculate_scenario_severity", first |-> a, second |-> b]
    /\ ret = [done |-> FALSE, first |-> Zero, second |-> Zero]
    /\ StrategyIdle
    /\ PortfolioIdle

\* StressTestEngine._calculate_scenario_severity on both scenarios
CalculateScenarioSeverity ==
    /\ ~ret.done
    /\ ret' = [done |-> TRUE,
               first |-> calculate_scenario_severity(call.first),
               second |-> calculate_scenario_severity(call.second)]
    /\ UNCHANGED <<call, stratVars, portVars>>

SeverityNext == CalculateScenarioSeverity

SpecSeverity == SeverityInit /\ [][SeverityNext]_vars

-----------------------------------------------------------------------------
(* OverfittingDetector: the five sub-scores and the overfitting score *)

\* the 1e-6 added to a mean before dividing by it
Epsilon == Fin("py", Q(1, 1000000))

\* mean of the squared deviations from m
MeanSquareAround(s, m) ==
    MeanV([i \in 1..Len(s) |-> Times(Minus(s[i], m), Minus(s[i], m))])
\* np.var of a non-empty list
Var(s) == MeanSquareAround(s, MeanV(s))

\* np.std(strategy_allocations) / (np.mean(strategy_allocations) + 1e-6): the
\* 1e-6 decides the quotient when the mean is zero; next to another mean it is
\* below the resolution Scale of the rounded standard deviation
CoefficientOfVariation(allocs) ==
    IF IsZero(MeanV(allocs)) THEN Over(Std(allocs), Epsilon)
    ELSE Over(Std(allocs), MeanV(allocs))

\* max(0, 100 - cv * 100) for the period allocations of one strategy
stability_score(allocs) ==
    py_max(PyNum(0), Minus(PyNum(100), Times(CoefficientOfVariation(allocs), PyNum(100))))

\* OverfittingDetector._analyze_time_stability, from the period allocations of
\* the strategies that have at least ten observations per period; of the dict
\* it returns only the 'score' entry is kept
analyze_time_stability(all_allocations) ==
    IF all_allocations = <<>> THEN [score |-> PyNum(0)]
    ELSE [score |-> MeanV([i \in 1..Len(all_allocations) |->
                               stability_score(all_allocations[i])])]

\* max(0, 100 - diff * 2) for the train and test allocations of one split
split_score(pair) ==
    py_max(PyNum(0), Minus(PyNum(100), Times(py_abs(Minus(pair[1], pair[2])), PyNum(2))))

\* np.mean(split_scores) of one strategy
MeanOfSplits(splits) == MeanV([j \in 1..Len(splits) |-> split_score(splits[j])])

\* OverfittingDetector._cross_validation_analysis, from the train and test
\* allocations of the splits of the strategies that have enough observations
cross_validation_analysis(splits_of) ==
    IF splits_of = <<>> THEN [score |-> PyNum(0)]
    ELSE [score |-> MeanV([i \in 1..Len(splits_of) |-> MeanOfSplits(splits_of[i])])]

\* max(0, 100 - np.var(noisy_allocations)) for one noise level
robustness_of(noisy_allocations) ==
    py_max(PyNum(0), Minus(PyNum(100), Var(noisy_allocations)))

\* np.mean(strategy_robustness) of one strategy
MeanOfLevels(levels) == MeanV([j \in 1..Len(levels) |-> robustness_of(levels[j])])

\* OverfittingDetector._robustness_test, from the noisy allocations of each
\* noise level of the strategies that have a return series
robustness_test(levels_of) ==
    IF levels_of = <<>> THEN [score |-> PyNum(0)]
    ELSE [score |-> MeanV([i \in 1..Len(levels_of) |-> MeanOfLevels(levels_of[i])])]

\* sum of the products of the deviations of x and y from their means mx and my
SumOfProducts(x, mx, y, my) ==
    SumV([i \in 1..Len(x) |-> Times(Minus(x[i], mx), Minus(y[i], my))])

\* np.cov of two lists: an entry of the covariance matrix (ddof = 1)
Covariance(x, y) ==
    IeeeDiv("np", SumOfProducts(x, MeanV(x), y, MeanV(y)), Fin("np", QInt(Len(x) - 1)))

\* np.clip(c, -1, 1)
ClipToUnit(c) == np_minimum(np_maximum(c, Fin("np", QInt(-1))), Fin("np", QInt(1)))

\* np.corrcoef(x, y)[0, 1]: the covariance divided by the two standard
\* deviations, one after the other, then clipped
np_corrcoef(x, y) ==
    ClipToUnit(IeeeDiv("np", IeeeDiv("np", Covariance(x, y), np_sqrt(Covariance(x, x))),
                       np_sqrt(Covariance(y, y))))

\* the score and the 'correlation' entry for a correlation that is a number
CorrelationScore(correlation) ==
    [score |-> py_max(PyNum(0), Minus(PyNum(100), Times(py_abs(correlation), PyNum(100)))),
     correlation |-> py_abs(correlation)]

\* the correlation analysis without the replacement of NaN by 0
correlation_analysis_keeping_nan(allocs, correlation) ==
    IF Len(allocs) < 2 THEN [score |-> PyNum(50), correlation |-> PyNum(0)]
    ELSE CorrelationScore(correlation)

\* OverfittingDetector._correlation_analysis, from the allocations of the
\* strategies and the value np.corrcoef returns for them; of the dict it returns
\* the 'score' and 'correlation' entries are kept ('correlation' is the string
\* 'INSUFFISANT' with fewer than two allocations, 0 here)
correlation_analysis(allocs, correlation) ==
    IF Len(allocs) < 2 THEN [score |-> PyNum(50), correlation |-> PyNum(0)]
    ELSE CorrelationScore(IF correlation.k = "nan" THEN PyNum(0) ELSE correlation)

\* the number of allocations above 50 or below 0
ExtremeCount(allocs) ==
    Cardinality({i \in 1..Len(allocs) :
                     XLt(PyNum(50), allocs[i]) \/ XLt(allocs[i], PyNum(0))})

\* 100 - extreme_ratio * 150 without the lower bound
extreme_score_unclamped(allocs) ==
    IF allocs = <<>> THEN PyNum(50)
    ELSE Minus(PyNum(100),
               Times(Fin("py", Q(ExtremeCount(allocs), Len(allocs))), PyNum(150)))

\* OverfittingDetector._detect_extreme_allocations
detect_extreme_allocations(allocs) ==
    IF allocs = <<>> THEN PyNum(50)
    ELSE py_max(PyNum(0),
                Minus(PyNum(100),
                      Times(Fin("py", Q(ExtremeCount(allocs), Len(allocs))), PyNum(150))))

\* sum(scores): the five sub-scores with their weights
WeightedSum(stability, cv, robustness, correlation, extreme) ==
    Plus(Plus(Plus(Plus(Plus(PyNum(0), Times(stability.score, Hundredths(25))),
                        Times(cv.score, Hundredths(25))),
                   Times(robustness.score, Hundredths(20))),
              Times(correlation.score, Hundredths(20))),
         Times(extreme, Hundredths(10)))

\* OverfittingDetector._calculate_overfitting_score
calculate_overfitting_score(stability, cv, robustness, correlation, extreme) ==
    py_max(PyNum(0),
           py_min(PyNum(100),
                  Minus(PyNum(100),
                        WeightedSum(stability, cv, robustness, correlation, extreme))))

\* OverfittingDetector._determine_risk_level
determine_risk_level(overfitting_score) ==
    IF XLt(overfitting_score, PyNum(30)) THEN "FAIBLE"
    ELSE IF XLt(overfitting_score, PyNum(60)) THEN "MODERE"
    ELSE "ELEVE"

-----------------------------------------------------------------------------
(* Specification SpecOverfitting: one analyze_formula_overfitting call *)

MaxStrategies == 2

\* what _evaluate_formula returns: a clamped result (below, inside and above
\* the range, and NaN) or the fallback
EvaluatedAllocations ==
    {Clamp0_50(raw) : raw \in {PyNum(-10), PyNum(5), PyNum(80), Special("np", "nan")}}
    \cup {OD_Fallback}

\* the allocations of the three periods of one strategy: constant, all zero,
\* and spread over the range
PeriodAllocations ==
    {a \in [1..3 -> EvaluatedAllocations] :
         a \in {<<PyNum(5), PyNum(5), PyNum(5)>>, <<PyNum(0), PyNum(0), PyNum(0)>>,
                <<PyNum(0), PyNum(50), OD_Fallback>>}}

\* the train and test allocations of the three splits of one strategy
TrainTestPairs ==
    {<<PyNum(5), PyNum(5)>>, <<PyNum(0), OD_Fallback>>, <<PyNum(50), PyNum(0)>>}
SplitAllocations ==
    {s \in [1..3 -> TrainTestPairs] : s[1] = <<PyNum(5), PyNum(5)>> /\ s[2] = s[3]}

\* ten noisy allocations: all equal, one apart, half and half
NoisyAllocations ==
    {[i \in 1..10 |-> PyNum(5)],
     [i \in 1..10 |-> IF i = 1 THEN PyNum(0) ELSE PyNum(5)],
     [i \in 1..10 |-> IF i <= 5 THEN PyNum(0) ELSE PyNum(50)]}
NoiseLevelAllocations ==
    {l \in [1..3 -> NoisyAllocations] : l[1] = [i \in 1..10 |-> PyNum(5)] /\ l[2] = l[3]}

\* np.sum(returns) * 100 of a strategy, 0 for a strategy without returns
PastPerformances == {Fin("np", QInt(-4)), PyNum(0), Fin("np", QInt(12))}

\* values of current_allocations
CurrentAllocationValues == {PyNum(-5), PyNum(30), PyNum(60)}

NotAnalysed == [score |-> PyNum(0)]

\* lengths of the return series of a strategy; 0 stands for a strategy whose
\* 'returns' entry is missing or None
SeriesLengths == {0, 20, 30, 60}

\* the number of strategies that have a return series of at least m observations
WithAtLeast(observations, m) ==
    Cardinality({i \in 1..Len(observations) : observations[i] >= m})

OverfittingInit ==
    /\ \E n \in 1..MaxStrategies, a \in SeqsUpTo(CurrentAllocationValues, MaxStrategies) :
           /\ Len(a) <= n
           /\ \E observations \in [1..n -> SeriesLengths] :
                  call = [fn |-> "analyze_formula_overfitting", n_strategies |-> n,
                          observations |-> observations,
                          current_allocations |-> a]
    /\ ret = [done |-> FALSE, stage |-> "start", full |-> FALSE,
              time_stability |-> NotAnalysed, cross_validation |-> NotAnalysed,
              robustness_test |-> NotAnalysed, correlation_analysis |-> NotAnalysed,
              past_performances |-> <<>>,
              extreme_allocation_score |-> PyNum(0),
              overfitting_score |-> PyNum(0), risk_level |-> "FAIBLE"]
    /\ StrategyIdle
    /\ PortfolioIdle

\* len(strategy_data) < 2: the initial results are returned
TooFewStrategies ==
    /\ ret.stage = "start"
    /\ call.n_strategies < 2
    /\ ret' = [ret EXCEPT !.done = TRUE, !.stage = "returned"]
    /\ UNCHANGED <<call, stratVars, portVars>>

AnalyzeTimeStability ==
    /\ ret.stage = "start"
    /\ call.n_strategies >= 2
    /\ \E data \in [1..WithAtLeast(call.observations, 3 * 10) -> PeriodAllocations] :
           ret' = [ret EXCEPT !.stage = "time_stability",
                              !.time_stability = analyze_time_stability(data)]
    /\ UNCHANGED <<call, stratVars, portVars>>

CrossValidationAnalysis ==
    /\ ret.stage = "time_stability"
    /\ \E data \in [1..WithAtLeast(call.observations, 3 * 20) -> SplitAllocations] :
           ret' = [ret EXCEPT !.stage = "cross_validation",
                              !.cross_validation = cross_validation_analysis(data)]
    /\ UNCHANGED <<call, stratVars, portVars>>

RobustnessTest ==
    /\ ret.stage = "cross_validation"
    /\ \E data \in [1..WithAtLeast(call.observations, 1) -> NoiseLevelAllocations] :
           ret' = [ret EXCEPT !.stage = "robustness_test",
                              !.robustness_test = robustness_test(data)]
    /\ UNCHANGED <<call, stratVars, portVars>>

CorrelationAnalysis ==
    /\ ret.stage = "robustness_test"
    /\ \E past \in [1..Len(call.current_allocations) -> PastPerformances] :
           ret' = [ret EXCEPT !.stage = "correlation_analysis",
                              !.past_performances = past,
                              !.correlation_analysis =
                                  correlation_analysis(
                                      call.current_allocations,
                                      np_corrcoef(call.current_allocations, past))]
    /\ UNCHANGED <<call, stratVars, portVars>>

\* the results once the extreme allocation score is known
Scored(r, extreme) ==
    [r EXCEPT !.done = TRUE, !.stage = "returned", !.full = TRUE,
              !.extreme_allocation_score = extreme,
              !.overfitting_score =
                  calculate_overfitting_score(r.time_stability, r.cross_validation,
                                              r.robustness_test,
                                              r.correlation_analysis, extreme),
              !.risk_level =
                  determine_risk_level(
                      calculate_overfitting_score(r.time_stability, r.cross_validation,
                                                  r.robustness_test,
                                                  r.correlation_analysis, extreme))]

\* steps 5 and 6 of analyze_formula_overfitting and its return
ScoreOverfitting ==
    /\ ret.stage = "correlation_analysis"
    /\ ret' = Scored(ret, detect_extreme_allocations(call.current_allocations))
    /\ UNCHANGED <<call, stratVars, portVars>>

OverfittingNext ==
    \/ TooFewStrategies
    \/ AnalyzeTimeStability
    \/ CrossValidationAnalysis
    \/ RobustnessTest
    \/ CorrelationAnalysis
    \/ ScoreOverfitting

SpecOverfitting == OverfittingInit /\ [][OverfittingNext]_vars

InScoreRange(x) == XLe(PyNum(0), x) /\ XLe(x, PyNum(100))

\* C20: after a full analysis the five sub-scores lie in [0, 100], the
\* overfitting score is 100 minus their sum weighted 25/25/20/20/10 and lies in
\* [0, 100], and the risk level is FAIBLE below 30, MODERE from 30 to below 60
\* and ELEVE from 60 up.
C20_OverfittingScore ==
    (ret.done /\ ret.full) =>
        /\ InScoreRange(ret.time_stability.score)
        /\ InScoreRange(ret.cross_validation.score)
        /\ InScoreRange(ret.robustness_test.score)
        /\ InScoreRange(ret.correlation_analysis.score)
        /\ InScoreRange(ret.extreme_allocation_score)
        /\ SameNumber(ret.overfitting_score,
                      Minus(PyNum(100),
                            WeightedSum(ret.time_stability, ret.cross_validation,
                                        ret.robustness_test, ret.correlation_analysis,
                                        ret.extreme_allocation_score)))
        /\ InScoreRange(ret.overfitting_score)
        /\ ret.risk_level = "FAIBLE" <=> XLt(ret.overfitting_score, PyNum(30))
        /\ ret.risk_level = "MODERE" <=> /\ XLe(PyNum(30), ret.overfitting_score)
                                         /\ XLt(ret.overfitting_score, PyNum(60))
        /\ ret.risk_level = "ELEVE" <=> XLe(PyNum(60), ret.overfitting_score)

\* a full analysis with an extreme allocation, a robustness below 100 and a
\* moderate risk level
C20_Witness ==
    /\ ret.done /\ ret.full
    /\ call.fn = "analyze_formula_overfitting"
    /\ SameNumber(ret.extreme_allocation_score, PyNum(25))
    /\ XLt(ret.robustness_test.score, PyNum(100))
    /\ ret.risk_level = "MODERE"

\* C21: an analysis of fewer than two strategies, or of strategies that all
\* have fewer than 30 observations, returns without computing an overfitting
\* score or a risk level from one.
C21_InsufficientDataGivesNoScore ==
    (/\ ret.done
     /\ call.fn = "analyze_formula_overfitting"
     /\ \/ call.n_strategies < 2
        \/ WithAtLeast(call.observations, 3 * 10) = 0)
    => ~ret.full

\* every strategy has the same current allocation
ConstantAllocations ==
    /\ Len(call.current_allocations) >= 2
    /\ \A i \in 1..Len(call.current_allocations) :
           call.current_allocations[i] = call.current_allocations[1]

\* C22: when every strategy has the same current allocation and at least two
\* strategies are analysed, the correlation analysis returns a correlation of
\* 0 and a score of 100.
C22_ConstantAllocationNoPenalty ==
    (/\ call.fn = "analyze_formula_overfitting"
     /\ ret.stage \in {"correlation_analysis", "returned"}
     /\ call.n_strategies >= 2
     /\ ConstantAllocations)
    => /\ SameNumber(ret.correlation_analysis.correlation, PyNum(0))
       /\ SameNumber(ret.correlation_analysis.score, PyNum(100))

\* a constant allocation analysed against two different past performances
C22_Witness ==
    /\ call.fn = "analyze_formula_overfitting"
    /\ ret.stage = "returned" /\ ret.full
    /\ ConstantAllocations
    /\ ret.past_performances[1] # ret.past_performances[2]
    /\ SameNumber(ret.correlation_analysis.score, PyNum(100))

-----------------------------------------------------------------------------
(* MonteCarloEngine._simulate_returns: the body of the loop for one trial *)

\* ruin_probability alone, as if the draw were made for one day
RuinThresholdOfOneDay(allocation, horizon) ==
    Times(Minus(allocation, Hundredths(50)), Hundredths(2))

\* ruin_probability * horizon for an allocation given as a fraction
RuinThreshold(allocation, horizon) ==
    Times(Times(Minus(allocation, Hundredths(50)), Hundredths(2)), PyNum(horizon))

\* allocation > 0.5 and np.random.random() < ruin_probability * horizon
TakesRuinBranch(allocation, horizon, draw) ==
    /\ XLt(Hundredths(50), allocation)
    /\ XLt(draw, RuinThreshold(allocation, horizon))

\* -allocation * np.random.uniform(0.7, 1.0)
RuinReturn(allocation, loss) == Times(IeeeNeg(allocation), loss)

RECURSIVE ProdOnePlus(_, _, _)
\* np.prod(1 + daily_returns[lo..hi]), by halves; a stretch of days whose
\* return is 0 has the product 1
ProdOnePlus(daily_returns, lo, hi) ==
    IF \A d \in lo..hi : IsZero(daily_returns[d]) THEN Fin("np", QInt(1))
    ELSE IF lo = hi THEN Plus(PyNum(1), daily_returns[lo])
    ELSE Times(ProdOnePlus(daily_returns, lo, (lo + hi) \div 2),
               ProdOnePlus(daily_returns, (lo + hi) \div 2 + 1, hi))

\* the cumulative return without its lower limit
CumulativeReturnUnlimited(daily_returns) ==
    Minus(ProdOnePlus(daily_returns, 1, Len(daily_returns)), PyNum(1))

\* max(-1.0, np.prod(1 + daily_returns) - 1)
CumulativeReturn(daily_returns) ==
    py_max(PyNum(-1),
           Minus(ProdOnePlus(daily_returns, 1, Len(daily_returns)), PyNum(1)))

\* daily_returns after a tail event on one day: a loss when the draw is below
\* 0.7 + allocation * 0.2, else a gain
WithTailEvent(daily_returns, day, allocation, draw, size) ==
    IF XLt(draw, Plus(Hundredths(70), Times(allocation, Hundredths(20))))
    THEN [daily_returns EXCEPT ![day] = Minus(@, Times(allocation, size))]
    ELSE [daily_returns EXCEPT ![day] = Plus(@, Times(allocation, size))]

\* the outcome of a trial: its return, the branch taken, and the generators
\* that were called for it
Ruined(allocation, loss) ==
    [value |-> RuinReturn(allocation, loss), branch |-> "ruin",
     drawn |-> {"random", "uniform"}]
Simulated(allocation, daily_returns, tail_events) ==
    [value |-> CumulativeReturn(daily_returns), branch |-> "path",
     drawn |-> (IF XLt(Hundredths(50), allocation) THEN {"random"} ELSE {})
               \cup {"normal", "poisson"}
               \cup (IF tail_events > 0 THEN {"randint", "uniform"} ELSE {})]

-----------------------------------------------------------------------------
(* Specification SpecPaths: _simulate_returns, trial by trial *)

\* allocations in percent, as _calculate_allocations leaves them
PathAllocations == {PyNum(0), PyNum(50), PyNum(60), PyNum(69), PyNum(70), PyNum(100)}
Horizons == {1, 252}
\* values of np.random.random(), in [0, 1)
RandomDraws == {Hundredths(0), Hundredths(50), Hundredths(96), Hundredths(99)}
\* values of np.random.uniform(0.7, 1.0)
RuinLosses == {Hundredths(70), Hundredths(90)}
\* values of np.random.normal for the first and the last day; the days in
\* between are drawn as 0
DailyDraws == {Fin("np", Q(-3, 2)), Fin("np", QInt(0)), Fin("np", Q(1, 10))}
\* values of np.random.random() for the direction of a tail event
TailDirections == {Hundredths(0), Hundredths(99)}
\* values of np.random.uniform for the size of a tail event
TailSizes == {Hundredths(5)}

\* the daily returns with first and final as their first and last day
DailyReturns(horizon, first, final) ==
    [d \in 1..horizon |-> IF d = 1 THEN first
                          ELSE IF d = horizon THEN final ELSE Fin("np", QInt(0))]

PathsInit ==
    /\ \E allocs \in SeqsUpTo(PathAllocations, MaxTrials), horizon \in Horizons :
           /\ allocs # <<>>
           /\ call = [fn |-> "simulate_returns", allocations |-> allocs,
                      horizon |-> horizon]
    /\ ret = [done |-> FALSE, returns |-> <<>>]
    /\ StrategyIdle
    /\ PortfolioIdle

\* the trial takes the ruin branch
RuinTrial(allocation) ==
    \E draw \in RandomDraws, loss \in RuinLosses :
        /\ TakesRuinBranch(allocation, call.horizon, draw)
        /\ ret' = [returns |-> Append(ret.returns, Ruined(allocation, loss)),
                   done |-> Len(ret.returns) + 1 = Len(call.allocations)]

\* the trial simulates a path without tail event
PathTrial(allocation) ==
    \E first \in DailyDraws, final \in DailyDraws :
        /\ \E draw \in RandomDraws : ~TakesRuinBranch(allocation, call.horizon, draw)
        /\ ret' = [returns |->
                       Append(ret.returns,
                              Simulated(allocation,
                                        DailyReturns(call.horizon, first, final), 0)),
                   done |-> Len(ret.returns) + 1 = Len(call.allocations)]

\* the trial simulates a path with one tail event
TailEventTrial(allocation) ==
    \E first \in DailyDraws, day \in {1, call.horizon},
       direction \in TailDirections, size \in TailSizes :
        /\ \E draw \in RandomDraws : ~TakesRuinBranch(allocation, call.horizon, draw)
        /\ ret' = [returns |->
                       Append(ret.returns,
                              Simulated(allocation,
                                        WithTailEvent(DailyReturns(call.horizon, first,
                                                                   Fin("np", QInt(0))),
                                                      day, allocation, direction, size),
                                        1)),
                   done |-> Len(ret.returns) + 1 = Len(call.allocations)]

\* one iteration of the loop of _simulate_returns
SimulateTrial ==
    /\ call.fn = "simulate_returns" /\ ~ret.done
    /\ \/ RuinTrial(Over(call.allocations[Len(ret.returns) + 1], PyNum(100)))
       \/ PathTrial(Over(call.allocations[Len(ret.returns) + 1], PyNum(100)))
       \/ TailEventTrial(Over(call.allocations[Len(ret.returns) + 1], PyNum(100)))
    /\ UNCHANGED <<call, stratVars, portVars>>

PathsNext == SimulateTrial

SpecPaths == PathsInit /\ [][PathsNext]_vars

\* the allocation of trial i as a fraction
FractionOf(i) == Over(call.allocations[i], PyNum(100))

\* C23: every trial outcome is at least -1; a trial with an allocation of at
\* most 50% is never ruined; a ruined trial has a return between -a and
\* -0.7 * a and no path or tail-event draw was made for it.
C23_RuinBranchBounded ==
    call.fn = "simulate_returns" =>
        \A i \in 1..Len(ret.returns) :
            /\ XLe(PyNum(-1), ret.returns[i].value)
            /\ XLe(FractionOf(i), Hundredths(50)) => ret.returns[i].branch # "ruin"
            /\ ret.returns[i].branch = "ruin" =>
                   /\ XLe(IeeeNeg(FractionOf(i)), ret.returns[i].value)
                   /\ XLe(ret.returns[i].value,
                          Times(Hundredths(-70), FractionOf(i)))
                   /\ ret.returns[i].drawn \cap {"normal", "poisson", "randint"} = {}

\* a ruined trial, and a path that had to be limited to -1
C23_Witness ==
    /\ call.fn = "simulate_returns" /\ ret.done
    /\ \E i \in 1..Len(ret.returns) : ret.returns[i].branch = "ruin"
    /\ \E i \in 1..Len(ret.returns) :
           /\ ret.returns[i].branch = "path"
           /\ SameNumber(ret.returns[i].value, PyNum(-1))

\* some value of np.random.random() sends the next trial into the ruin
\* branch, and some value keeps it out of it
NextTrialCanRuin ==
    \E draw \in RandomDraws :
        TakesRuinBranch(FractionOf(Len(ret.returns) + 1), call.horizon, draw)
NextTrialCanSurvive ==
    \E draw \in RandomDraws :
        ~TakesRuinBranch(FractionOf(Len(ret.returns) + 1), call.horizon, draw)

\* (a - 0.5) * 0.02 * horizon for the allocation a of trial i
SingleDrawBound(i) ==
    Times(Times(Minus(FractionOf(i), Hundredths(50)), Hundredths(2)), PyNum(call.horizon))

\* C30: a trial whose allocation a has (a - 0.5) * 0.02 * horizon >= 1 always
\* ends in the ruin branch; a trial with a > 0.5 below that bound can end in
\* the ruin branch and can end outside it.
C30_SingleDrawRuinCheck ==
    call.fn = "simulate_returns" =>
        /\ \A i \in 1..Len(ret.returns) :
               XLe(PyNum(1), SingleDrawBound(i)) => ret.returns[i].branch = "ruin"
        /\ (/\ ~ret.done
            /\ XLt(Hundredths(50), FractionOf(Len(ret.returns) + 1))
            /\ XLt(SingleDrawBound(Len(ret.returns) + 1), PyNum(1)))
           => NextTrialCanRuin /\ NextTrialCanSurvive

\* at the 252-day horizon, a ruined trial at 70% and a trial at 69% that was
\* not ruined
C30_Witness ==
    /\ call.fn = "simulate_returns" /\ ret.done
    /\ call.horizon = 252
    /\ call.allocations = <<PyNum(70), PyNum(69)>>
    /\ ret.returns[1].branch = "ruin"
    /\ ret.returns[2].branch = "path"

\* the first tier whose three thresholds are met by the figures of a result
FirstTierMet(r) ==
    IF /\ XLe(r.stressed_allocation, PyNum(2)) /\ XLe(r.probability_ruin, PyNum(5))
       /\ XLe(r.worst_case_loss, PyNum(10))
    THEN "TRES FAIBLE"
    ELSE IF /\ XLe(r.stressed_allocation, PyNum(5)) /\ XLe(r.probability_ruin, PyNum(15))
            /\ XLe(r.worst_case_loss, PyNum(25))
    THEN "FAIBLE"
    ELSE IF /\ XLe(r.stressed_allocation, PyNum(15)) /\ XLe(r.probability_ruin, PyNum(35))
            /\ XLe(r.worst_case_loss, PyNum(50))
    THEN "MODERE"
    ELSE IF /\ XLe(r.stressed_allocation, PyNum(30)) /\ XLe(r.probability_ruin, PyNum(60))
            /\ XLe(r.worst_case_loss, PyNum(75))
    THEN "ELEVE"
    ELSE "EXTREME"

\* the label of every result is the first tier met by its reported figures
LabelIsFirstTierMet ==
    (ret.done /\ call.fn = "run_stress_test") =>
        \A i \in 1..Len(ret.results) : ret.results[i].risk_score = FirstTierMet(ret.results[i])

\* C24: the risk label of every result is the first tier whose thresholds on
\* allocation, ruin probability and worst-case loss are met by the figures the
\* result reports, and the figures compared are those reported percentages.
C24_RiskLabelFromReportedFigures ==
    (ret.done /\ call.fn = "run_stress_test") =>
        \A i \in 1..Len(ret.results) :
            /\ ret.results[i].risk_score = FirstTierMet(ret.results[i])
            /\ SameNumber(ret.results[i].risk_arguments.allocation,
                          ret.results[i].stressed_allocation)
            /\ SameNumber(ret.results[i].risk_arguments.prob_ruin,
                          ret.results[i].probability_ruin)
            /\ SameNumber(ret.results[i].risk_arguments.worst_case,
                          ret.results[i].worst_case_loss)

-----------------------------------------------------------------------------
(* Claims on removing strategies and on optimizing a mixed portfolio *)

\* C25: for any name in the strategy mapping, remove_strategy(name) completes
\* without error whatever add_strategy, set_allocation and optimize_allocations
\* calls came before, and afterwards the name is in neither the strategy
\* mapping nor the allocation mapping.
C25_RemoveStrategyCompletes ==
    [][\A name \in StrategyNames :
           (name \in DOMAIN strategies /\ remove_strategy(name)) =>
               /\ last'.outcome = "ok"
               /\ name \notin DOMAIN strategies'
               /\ name \notin DOMAIN allocations']_vars

\* at least one strategy has a return series and at least one has none
MixedPortfolio ==
    /\ \E name \in DOMAIN strategies : HasReturns(strategies[name])
    /\ \E name \in DOMAIN strategies : ~HasReturns(strategies[name])

\* C26: optimize_allocations with min_variance, max_sharpe or max_omega on a
\* portfolio with at least one strategy that has returns and at least one that
\* has none completes without error, and only strategies of the portfolio
\* that have a return row receive a weight other than 0.
C26_MixedPortfolioOptimizes ==
    (/\ last.op = "optimize_allocations"
     /\ last.arg \in {"min_variance", "max_sharpe", "max_omega"}
     /\ MixedPortfolio) =>
        /\ last.outcome = "ok"
        /\ \A name \in DOMAIN allocations :
               (name \notin DOMAIN strategies \/ ~HasReturns(strategies[name])) =>
                   IsZero(allocations[name])

-----------------------------------------------------------------------------
(* MainController with its DataController and PortfolioController.  The
   portfolio of the portfolio controller is held in strategies, allocations
   and portfolio_metrics; ret holds the rest of the controllers' state:
   trade_models (keys in insertion order), strategy_models, loaded_files,
   portfolio_order (keys of portfolio.strategies in insertion order),
   optimization_history, and the portfolio controller's signals and the
   exception of the last call *)

\* keys of a dict in insertion order after d[key] = ..., and after del d[key]
KeyAdded(keys, key) ==
    IF \E i \in 1..Len(keys) : keys[i] = key THEN keys ELSE Append(keys, key)
KeyRemoved(keys, key) == SelectSeq(keys, LAMBDA k : k # key)
KeySet(keys) == {keys[i] : i \in 1..Len(keys)}

\* a slot that appends the file name whether or not it is already listed
on_data_loaded_always_appends(loaded_files, file_name) == Append(loaded_files, file_name)

\* MainController._on_data_loaded
on_data_loaded(loaded_files, file_name) ==
    IF file_name \in KeySet(loaded_files) THEN loaded_files
    ELSE Append(loaded_files, file_name)

\* DataController.load_csv_file with the slot of data_loaded; content is what
\* TradeModel.load_from_csv and get_returns make of the file
LoadCsvFile(d, file_name, content) ==
    IF ~content.readable THEN d
    ELSE [d EXCEPT !.trade_models = KeyAdded(@, file_name),
                   !.strategy_models = IF Len(content.returns) > 0
                                       THEN With(@, file_name, Loaded(content.returns))
                                       ELSE @,
                   !.loaded_files = on_data_loaded(@, file_name),
                   !.loaded = @ + 1]

\* DataController.load_multiple_csv: load_csv_file on every path, counting
\* the successes in d.loaded
RECURSIVE LoadMultipleCsv(_, _, _)
LoadMultipleCsv(d, batch, i) ==
    IF i > Len(batch) THEN d
    ELSE LoadMultipleCsv(LoadCsvFile(d, batch[i].file_name, batch[i].content), batch, i + 1)

Emit(pc, signal) == [pc EXCEPT !.signals = Append(@, signal)]

\* portfolio_updated.emit() with MainController._on_portfolio_updated, whose
\* get_portfolio_summary() recalculates the portfolio metrics
PortfolioUpdated(pc) ==
    [pc EXCEPT !.signals = Append(@, "portfolio_updated"),
               !.portfolio_metrics = calculate_portfolio_metrics(pc.strategies, pc.allocations, pc.portfolio_metrics)]

\* PortfolioController.add_strategy_to_portfolio(name, strategy), allocation = 0
add_strategy_to_portfolio(pc, name, strategy) ==
    Emit(PortfolioUpdated([pc EXCEPT !.strategies = With(@, name, strategy),
                                     !.allocations = normalize_allocations(With(@, name, PyZero)),
                                     !.order = KeyAdded(@, name)]),
         "allocation_changed")

\* PortfolioController.remove_strategy_from_portfolio(name)
remove_strategy_from_portfolio(pc, name) ==
    IF name \notin DOMAIN pc.strategies THEN Emit(PortfolioUpdated(pc), "allocation_changed")
    ELSE IF name \notin DOMAIN pc.allocations
    THEN [pc EXCEPT !.strategies = Without(@, name), !.order = KeyRemoved(@, name),
                    !.exc = "KeyError"]
    ELSE Emit(PortfolioUpdated([pc EXCEPT !.strategies = Without(@, name),
                                          !.allocations = Without(@, name),
                                          !.order = KeyRemoved(@, name)]),
              "allocation_changed")

\* the loop of MainController.load_data_files over loaded_files
RECURSIVE AddLoaded(_, _, _, _)
AddLoaded(pc, files, models, i) ==
    IF i > Len(files) THEN pc
    ELSE AddLoaded(IF files[i] \in DOMAIN models
                   THEN add_strategy_to_portfolio(pc, files[i], models[files[i]])
                   ELSE pc,
                   files, models, i + 1)

\* the loop of MainController._on_data_cleared over the strategies, which an
\* exception ends
RECURSIVE RemoveAll(_, _, _)
RemoveAll(pc, names, i) ==
    IF i > Len(names) \/ pc.exc # "" THEN pc
    ELSE RemoveAll(remove_strategy_from_portfolio(pc, names[i]), names, i + 1)

\* optimize_portfolio after methods[method]() gave r
Optimized(pc, r) ==
    IF r.exc # "" THEN [pc EXCEPT !.exc = r.exc]
    ELSE PortfolioUpdated(Emit(Emit([pc EXCEPT !.allocations = normalize_allocations(r.v)],
                                    "allocation_changed"),
                               "optimization_complete"))

\* PortfolioController.optimize_portfolio(method) on the portfolio
OptimizePortfolio(pc, method, result) ==
    IF method \in Methods THEN Optimized(pc, RunMethod(pc.strategies, method, result))
    ELSE PortfolioUpdated(Emit(Emit(pc, "allocation_changed"), "optimization_complete"))

\* the record appended to optimization_history (parameters and timestamp are
\* left out)
OptimizationRecord(method, old, new) ==
    [method |-> method, old_allocations |-> old, new_allocations |-> new]

-----------------------------------------------------------------------------
(* Specification SpecControllers: calls on one MainController *)

\* calls made on the controllers in one behaviour
MaxCalls == 3

\* what load_from_csv and get_returns make of a file: unreadable, without
\* trades, or with the returns of its trades
FileContents ==
    {[readable |-> FALSE, returns |-> <<>>], [readable |-> TRUE, returns |-> <<>>]}
        \cup {[readable |-> TRUE, returns |-> Series(p)] : p \in {<<2, -1>>, <<1, 1>>}}
FilesToLoad == [file_name : StrategyNames, content : FileContents]
\* the paths of one load_multiple_csv or load_data_files call
Batches ==
    {<<f>> : f \in FilesToLoad}
        \cup {<<f, g>> : f \in {x \in FilesToLoad : x.file_name = "A"},
                         g \in {x \in FilesToLoad : x.file_name = "B"}}

NoCalls ==
    [fn |-> "none", arg |-> "", allocations_before |-> NoMapping,
     strategies_before |-> {}, history_before |-> <<>>]

ControllersInit ==
    /\ call = NoCalls
    /\ ret = [done |-> FALSE, trade_models |-> <<>>, strategy_models |-> NoStrategies,
              loaded_files |-> <<>>, portfolio_order |-> <<>>,
              optimization_history |-> <<>>, signals |-> <<>>, exc |-> "",
              reallocated |-> FALSE]
    /\ StrategyIdle
    /\ PortfolioIdle

DataNow ==
    [trade_models |-> ret.trade_models, strategy_models |-> ret.strategy_models,
     loaded_files |-> ret.loaded_files, loaded |-> 0]
PortfolioNow ==
    [strategies |-> strategies, allocations |-> allocations,
     portfolio_metrics |-> portfolio_metrics, order |-> ret.portfolio_order,
     signals |-> <<>>, exc |-> ""]

Called(fn, arg) ==
    call' = [fn |-> fn, arg |-> arg, allocations_before |-> allocations,
             strategies_before |-> DOMAIN strategies,
             history_before |-> ret.optimization_history]

\* the state the call leaves behind
Stored(d, pc, history, reallocated) ==
    /\ ret' = [done |-> TRUE, trade_models |-> d.trade_models,
               strategy_models |-> d.strategy_models, loaded_files |-> d.loaded_files,
               portfolio_order |-> pc.order, optimization_history |-> history,
               signals |-> pc.signals, exc |-> pc.exc, reallocated |-> reallocated]
    /\ strategies' = pc.strategies
    /\ allocations' = pc.allocations
    /\ portfolio_metrics' = pc.portfolio_metrics
    /\ ops' = ops + 1
    /\ UNCHANGED <<stratVars, manual, last>>

\* DataController.load_csv_file(file_path)
load_csv_file(file_name, content) ==
    /\ ops < MaxCalls
    /\ Called("load_csv_file", file_name)
    /\ Stored(LoadCsvFile(DataNow, file_name, content), PortfolioNow,
              ret.optimization_history, ret.reallocated)

\* DataController.load_multiple_csv(file_paths)
load_multiple_csv(batch) ==
    /\ ops < MaxCalls
    /\ Called("load_multiple_csv", "")
    /\ Stored(LoadMultipleCsv(DataNow, batch, 1), PortfolioNow,
              ret.optimization_history, ret.reallocated)

\* load_data_files after load_multiple_csv left d
DataFilesLoaded(d) ==
    IF d.loaded > 0
    THEN Stored([d EXCEPT !.loaded_files = d.trade_models],
                AddLoaded(PortfolioNow, d.trade_models, d.strategy_models, 1),
                ret.optimization_history, ret.reallocated)
    ELSE Stored(d, PortfolioNow, ret.optimization_history, ret.reallocated)

\* MainController.load_data_files(file_paths)
load_data_files(batch) ==
    /\ ops < MaxCalls
    /\ Called("load_data_files", "")
    /\ DataFilesLoaded(LoadMultipleCsv(DataNow, batch, 1))

\* MainController._on_file_removed and _on_data_cleared after the portfolio
\* part left pc: an exception leaves loaded_files as it was
ListedFilesDropped(d, pc, remaining) ==
    Stored(IF pc.exc = "" THEN [d EXCEPT !.loaded_files = remaining] ELSE d, pc,
           ret.optimization_history, ret.reallocated)

\* DataController.remove_file(file_name) with the slot _on_file_removed
remove_file(file_name) ==
    /\ ops < MaxCalls
    /\ Called("remove_file", file_name)
    /\ ListedFilesDropped([DataNow EXCEPT !.trade_models = KeyRemoved(@, file_name),
                                          !.strategy_models = Without(@, file_name)],
                          IF file_name \in DOMAIN strategies
                          THEN remove_strategy_from_portfolio(PortfolioNow, file_name)
                          ELSE PortfolioNow,
                          KeyRemoved(ret.loaded_files, file_name))

\* DataController.clear_all_data() with the slot _on_data_cleared
clear_all_data ==
    /\ ops < MaxCalls
    /\ Called("clear_all_data", "")
    /\ ListedFilesDropped([DataNow EXCEPT !.trade_models = <<>>,
                                          !.strategy_models = NoStrategies],
                          RemoveAll(PortfolioNow, ret.portfolio_order, 1), <<>>)

\* optimize_portfolio appends its record unless optimize_allocations raised
HistoryStored(pc, method) ==
    Stored(DataNow, pc,
           IF pc.exc = ""
           THEN Append(ret.optimization_history,
                       OptimizationRecord(method, allocations, pc.allocations))
           ELSE ret.optimization_history,
           TRUE)

\* PortfolioController.optimize_portfolio(method)
optimize_portfolio(method, result) ==
    /\ ops < MaxCalls
    /\ Called("optimize_portfolio", method)
    /\ HistoryStored(OptimizePortfolio(PortfolioNow, method, result), method)

\* PortfolioController.update_allocations(allocations)
update_allocations(w) ==
    /\ ops < MaxCalls
    /\ Called("update_allocations", "")
    /\ Stored(DataNow,
              PortfolioUpdated(Emit([PortfolioNow EXCEPT !.allocations = w],
                                    "allocation_changed")),
              ret.optimization_history, TRUE)

ControllersNext ==
    \/ \E file_name \in StrategyNames, content \in FileContents :
           load_csv_file(file_name, content)
    \/ \E batch \in Batches : load_multiple_csv(batch)
    \/ \E batch \in Batches : load_data_files(batch)
    \/ \E file_name \in StrategyNames : remove_file(file_name)
    \/ clear_all_data
    \/ \E method \in Methods \cup {"momentum"} :
           \E result \in OptimizerResults(strategies, method) :
               optimize_portfolio(method, result)
    \/ \E w \in ManualWeights : update_allocations(w)

SpecControllers == ControllersInit /\ [][ControllersNext]_vars

-----------------------------------------------------------------------------
(* Claims on the controllers *)

\* C27: load_data_files leaves unchanged the weight of every strategy that was
\* in the portfolio before the call.
C27_LoadKeepsWeights ==
    (call.fn = "load_data_files" /\ ret.exc = "") =>
        \A name \in call.strategies_before \cap DOMAIN call.allocations_before :
            /\ name \in DOMAIN allocations
            /\ SameNumber(allocations[name], call.allocations_before[name])

\* no optimize_portfolio or update_allocations call has been made
OnlyDataCalls == ~ret.reallocated

\* C28: after any sequence of load_csv_file, load_multiple_csv,
\* load_data_files, remove_file and clear_all_data calls, loaded_files holds
\* exactly the keys of trade_models, each once.
C28_LoadedFilesAreTradeModels ==
    OnlyDataCalls =>
        /\ KeySet(ret.loaded_files) = KeySet(ret.trade_models)
        /\ Len(ret.loaded_files) = Cardinality(KeySet(ret.trade_models))

\* the third call, after data calls only, removes a file and leaves one listed
\* file with its trade model
C28_Witness ==
    /\ OnlyDataCalls
    /\ call.fn = "remove_file"
    /\ ops = 3
    /\ Len(ret.loaded_files) = 1
    /\ Len(ret.trade_models) = 1

\* C29: every optimize_portfolio call appends exactly one record to the
\* history, with the allocations before and after the call, leaves the earlier
\* records as they were, and emits allocation_changed, optimization_complete
\* and portfolio_updated in this order.
C29_OneRecordPerOptimization ==
    call.fn = "optimize_portfolio" =>
        /\ Len(ret.optimization_history) = Len(call.history_before) + 1
        /\ SubSeq(ret.optimization_history, 1, Len(call.history_before)) = call.history_before
        /\ ret.optimization_history[Len(ret.optimization_history)] =
               OptimizationRecord(call.arg, call.allocations_before, allocations)
        /\ ret.signals = <<"allocation_changed", "optimization_complete", "portfolio_updated">>

====
